---- MODULE Spec2Model ----
(***************************************************************************)
(* Message-routing pipeline of instaAutomation: the webhook receiver, the   *)
(* BullMQ queues and their retry options, the conversation helpers of the   *)
(* db package and the outbound sender (InstagramAPIClient.sendMessage over  *)
(* retryWithBackoff).  Each subsystem has its own specification over the     *)
(* shared variables; the variables of the other subsystems stay at their     *)
(* initial values.                                                           *)
(***************************************************************************)
EXTENDS Integers, Sequences, FiniteSets, TLC

VARIABLES
    \* ---- webhook receiver (redis.ts:263-288)
    verifyTokenEnv,   \* process.env.WEBHOOK_VERIFY_TOKEN
    appSecretEnv,     \* process.env.APP_SECRET
    delivered,        \* eventId -> number of POST /webhook deliveries so far
    getResponse,      \* the last GET /webhook request with its response
    postResponse,     \* the last POST /webhook request with its response
    \* ---- queues (redis.ts:65-188)
    jobs,             \* sequence of jobs ever added, indexed by job id
    \* ---- conversations (part_005:100-158)
    conversations,    \* conversation id -> row of the conversation table
    cpc,              \* caller -> position in addMessageToConversation
    carg,             \* caller -> arguments of its current call
    csnap,            \* caller -> the messages its findUnique returned
    cresult,          \* caller -> how its last call ended
    appended,         \* messages whose addMessageToConversation call returned
    callOrder,        \* the messages in the order their calls started
    \* ---- outbound sender (instagram-api.ts:56-80, 153-191; part_004:227-254)
    rpc,              \* position in retryWithBackoff
    caller,           \* who called retryWithBackoff
    maxRetries,       \* its maxRetries argument
    baseDelay,        \* its baseDelay argument (ms)
    ri,               \* its loop variable i
    lastError,        \* its lastError
    attempts,         \* the invocations of fn: start time and platform answer
    waits,            \* the delays it has slept (ms)
    clock,            \* ms since the call started
    outcome,          \* what the call returned or threw
    thrown,           \* the terminal error of the last earlier sendMessage call
    \* ---- helpers called one at a time: the last call with its result
    mkCall,           \* matchesKeyword (part_004:108-136)
    rvCall,           \* replaceVariables (part_004:142-149)
    vaCall,           \* a safeParse of a rule (part_003:53-69, 283-291, 338-340)
    aiCall,           \* a call of AIService (ai-service.ts:37-69, 197-220)
    activityLogs,     \* the rows of the ActivityLog table
    logCall,          \* a call of logActivity (part_005:83-98)
    \* ---- getOrCreateConversation called by concurrent workers
    convRows,         \* the rows of the Conversation table
    upc,              \* each caller's position in getOrCreateConversation
    uarg,             \* its arguments and the new Date() it passes
    ures,             \* the conversation it received
    now,              \* the clock new Date() reads
    upserts,          \* the number of getOrCreateConversation calls so far
    \* ---- rule cache in Redis
    store,            \* Redis: key -> value with its expiry
    redisClock,       \* the Redis server's clock (seconds)
    ticks,            \* how many times the clock has advanced
    cacheWrites,      \* per account, the last cacheAutomationRules call
    writes,           \* the number of cacheAutomationRules calls so far
    rdCall,           \* the last getCachedAutomationRules call with its result
    \* ---- automation rules
    ruleRows,         \* the rows of the AutomationRule table
    fetched,          \* what the last getActiveAutomations call returned
    selected,         \* the rules the worker selected: pairs of job and rule id
    \* ---- failed sets of the queues
    failedSet,        \* per queue, the jobs in its failed set, numbered in
                      \* the order in which they exhausted their attempts
    exhausted,        \* per queue, how many jobs have exhausted their attempts
    \* ---- addMessageToConversation called on the rows of the table
    addCall,          \* the last addMessageToConversation call made on these rows
    adds,             \* the number of such calls so far
    \* ---- checkRateLimit on Redis, called by concurrent workers (redis.ts:243-252)
    rlKeys,           \* Redis: per user, the ratelimit:<userId> counter and its expiry
    rlNow,            \* the Redis server's clock (seconds)
    rlEpoch,          \* per user, how many times the counter has expired
    rlpc,             \* each worker's position in checkRateLimit
    rlArg,            \* the userId it passed
    rlCurrent,        \* what its INCR returned, and in which life of the counter
    rlLog,            \* the calls that have returned
    rlChecks,         \* the number of checkRateLimit calls so far
    rlCrashes,        \* the number of process failures so far
    \* ---- usage limit, checked and incremented by concurrent workers (part_005:27-62)
    usUser,           \* the User row: usageCount, usageLimit, usageResetAt (hours)
    usNow,            \* the clock new Date() reads (hours)
    uspc,             \* each worker's position between checkUsageLimit and incrementUsage
    usResetAt,        \* the now its checkUsageLimit is about to write
    usChecks,         \* the number of checkUsageLimit calls so far
    \* ---- in-memory checkRateLimit (part_004:59-99)
    rateLimitStore,   \* the in-memory store: key -> { count, resetAt }
    memNow,           \* the clock Date.now() reads (ms)
    memMax,           \* the maxRequests every call passes
    memWindow,        \* the windowMs every call passes
    memLog,           \* the calls so far: arguments, record before, result, record after
    \* ---- analyzeSentiment (ai-service.ts:225-271)
    snCall            \* the last analyzeSentiment call: message, provider, position, result

webhookVars == <<verifyTokenEnv, appSecretEnv, delivered, getResponse, postResponse>>
queueVars == <<jobs>>
convVars == <<conversations, cpc, carg, csnap, cresult, appended, callOrder>>
sendVars == <<rpc, caller, maxRetries, baseDelay, ri, lastError, attempts, waits,
              clock, outcome, thrown>>
helperVars == <<mkCall, rvCall, vaCall, aiCall, activityLogs, logCall, convRows, upc, uarg, ures, now, upserts, store, redisClock, ticks, cacheWrites, writes, rdCall, ruleRows, fetched, selected>>
dlqVars == <<failedSet, exhausted>>
addVars == <<addCall, adds>>
rlVars == <<rlKeys, rlNow, rlEpoch, rlpc, rlArg, rlCurrent, rlLog, rlChecks, rlCrashes>>
usageVars == <<usUser, usNow, uspc, usResetAt, usChecks>>
memVars == <<rateLimitStore, memNow, memMax, memWindow, memLog>>
sentVars == <<snCall>>
laterVars == <<dlqVars, addVars, rlVars, usageVars, memVars, sentVars>>
baseVars == <<webhookVars, queueVars, convVars, sendVars, helperVars>>
besidesDlq == <<baseVars, addVars, rlVars, usageVars, memVars, sentVars>>
besidesAdd == <<baseVars, dlqVars, rlVars, usageVars, memVars, sentVars>>
besidesRl == <<baseVars, dlqVars, addVars, usageVars, memVars, sentVars>>
besidesUsage == <<baseVars, dlqVars, addVars, rlVars, memVars, sentVars>>
besidesMem == <<baseVars, dlqVars, addVars, rlVars, usageVars, sentVars>>
besidesSent == <<baseVars, dlqVars, addVars, rlVars, usageVars, memVars>>
vars == <<baseVars, laterVars>>

-----------------------------------------------------------------------------
(* Bounds of the model *)

MaxDeliveries == 2
MaxJobs == 2
MaxMessages == 3
MaxTimestamp == 2
MaxRetriesArg == 3
MaxMessageLen == 3
MaxKeywordLen == 2
MaxTemplateLen == 6
MaxLogs == 2
MaxUpserts == 3
MaxNow == 1
MaxWrites == 2
MaxTicks == 3
MaxExhausted == 1001
MaxAdds == 2
MaxChecks == 4
MaxRedisTime == 3
MaxCrashes == 1
MaxUsageChecks == 4
MaxUsageHalfDays == 3
UsageLimit == 2
MaxRequestsArg == 2
MaxWindowMs == 2
MaxMemCalls == 4
MaxMemNow == 4

-----------------------------------------------------------------------------
(* Values *)

\* JavaScript's undefined: an absent query parameter, header or env variable.
Undefined == "<undefined>"

EventIds == {"e1", "e2"}
Tokens == {"s3cret", "wrong"}
Modes == {"subscribe", "unsubscribe"}
Challenges == {"c1", "c2"}

\* The X-Hub-Signature-256 header of a POST, relative to the keyed hash of
\* the raw body under the app secret.
Signatures == {"missing", "mismatch", "valid"}

-----------------------------------------------------------------------------
(* Queues *)

WebhookQueueName == "webhook-events"
MessageQueueName == "message-processing"
SendMessageQueueName == "send-message"
QueueNames == {WebhookQueueName, MessageQueueName, SendMessageQueueName}

\* defaultJobOptions.attempts of the three queues
WebhookAttempts == 3
MessageAttempts == 3
SendMessageAttempts == 5

Attempts(q) ==
    IF q = WebhookQueueName THEN WebhookAttempts
    ELSE IF q = MessageQueueName THEN MessageAttempts
    ELSE SendMessageAttempts

\* defaultJobOptions.backoff.delay (ms) of the three queues
WebhookBackoffDelay == 2000
MessageBackoffDelay == 2000
SendMessageBackoffDelay == 3000

BackoffDelay(q) ==
    IF q = WebhookQueueName THEN WebhookBackoffDelay
    ELSE IF q = MessageQueueName THEN MessageBackoffDelay
    ELSE SendMessageBackoffDelay

RECURSIVE Pow2(_)
Pow2(n) == IF n = 0 THEN 1 ELSE 2 * Pow2(n - 1)

\* backoff: { type: 'exponential', delay }: the wait before attempt
\* attemptsMade + 1 is delay * 2^(attemptsMade - 1).
ExponentialBackoff(q, attemptsMade) == BackoffDelay(q) * Pow2(attemptsMade - 1)

NewJob(q, name, eventId, priority) ==
    [ queue |-> q, name |-> name, eventId |-> eventId, priority |-> priority,
      state |-> "waiting", attemptsMade |-> 0, delay |-> 0, failedReason |-> "" ]

\* Queue.add without a jobId option: every call creates a new job.
QueueAdd(q, name, eventId, priority) ==
    /\ Len(jobs) < MaxJobs
    /\ jobs' = Append(jobs, NewJob(q, name, eventId, priority))

QueueWebhookEvent(e) ==
    /\ QueueAdd(WebhookQueueName, "webhook-event", e, 1)
    /\ UNCHANGED <<webhookVars, convVars, sendVars, helperVars, laterVars>>

QueueMessageProcessing(e) ==
    /\ QueueAdd(MessageQueueName, "process-message", e, 2)
    /\ UNCHANGED <<webhookVars, convVars, sendVars, helperVars, laterVars>>

QueueSendMessage(e) ==
    /\ QueueAdd(SendMessageQueueName, "send-message", e, 3)
    /\ UNCHANGED <<webhookVars, convVars, sendVars, helperVars, laterVars>>

JobIds == DOMAIN jobs

\* A worker attached to the job's queue takes the waiting job.  (The one
\* Worker this code base constructs listens on "inbound-events"; the workers
\* of the three queues are deployed separately, and what their processors
\* return or throw is an input here.)
WorkerTake(j) ==
    /\ jobs[j].state = "waiting"
    /\ jobs' = [jobs EXCEPT ![j].state = "active"]
    /\ UNCHANGED <<webhookVars, convVars, sendVars, helperVars, laterVars>>

\* The processor returns: the job is completed.
JobCompletes(j) ==
    /\ jobs[j].state = "active"
    /\ jobs' = [jobs EXCEPT ![j].state = "completed",
                            ![j].attemptsMade = @ + 1]
    /\ UNCHANGED <<webhookVars, convVars, sendVars, helperVars, laterVars>>

\* JobFails with one attempt too many: made <= attempts in place of <.
JobFailsOffByOne(j, err) ==
    /\ jobs[j].state = "active"
    /\ LET made == jobs[j].attemptsMade + 1
       IN  IF made <= Attempts(jobs[j].queue)
           THEN jobs' = [jobs EXCEPT
                           ![j].attemptsMade = made,
                           ![j].state = "delayed",
                           ![j].delay = ExponentialBackoff(jobs[j].queue, made)]
           ELSE jobs' = [jobs EXCEPT
                           ![j].attemptsMade = made,
                           ![j].state = "failed",
                           ![j].delay = 0,
                           ![j].failedReason = err]
    /\ UNCHANGED <<webhookVars, convVars, sendVars, helperVars, laterVars>>

\* The processor throws err: the job is retried after its backoff delay while
\* attempts remain and is moved to failed, with the error's message as its
\* failedReason, once the queue's attempts are used up.
JobFails(j, err) ==
    /\ jobs[j].state = "active"
    /\ LET made == jobs[j].attemptsMade + 1
       IN  IF made < Attempts(jobs[j].queue)
           THEN jobs' = [jobs EXCEPT
                           ![j].attemptsMade = made,
                           ![j].state = "delayed",
                           ![j].delay = ExponentialBackoff(jobs[j].queue, made)]
           ELSE jobs' = [jobs EXCEPT
                           ![j].attemptsMade = made,
                           ![j].state = "failed",
                           ![j].delay = 0,
                           ![j].failedReason = err]
    /\ UNCHANGED <<webhookVars, convVars, sendVars, helperVars, laterVars>>

\* The backoff delay of a delayed job has passed: it waits for a worker again.
BackoffElapsed(j) ==
    /\ jobs[j].state = "delayed"
    /\ jobs' = [jobs EXCEPT ![j].state = "waiting", ![j].delay = 0]
    /\ UNCHANGED <<webhookVars, convVars, sendVars, helperVars, laterVars>>

\* clearAllQueues: Queue.drain() of the three queues removes the waiting jobs
\* and leaves active, delayed, completed and failed ones.
ClearAllQueues ==
    /\ \E j \in JobIds : jobs[j].state = "waiting"
    /\ jobs' = [j \in JobIds |->
                  IF jobs[j].state = "waiting"
                  THEN [jobs[j] EXCEPT !.state = "removed"]
                  ELSE jobs[j]]
    /\ UNCHANGED <<webhookVars, convVars, sendVars, helperVars, laterVars>>

\* The queue the Worker of this code base is constructed on.
InboundEventsQueueName == "inbound-events"

\* A producer of the inbound-events queue: queue.add('process-message', ...)
\* on new Queue('inbound-events'), as the progress report sketches it.
AddInboundEvent(e) ==
    /\ QueueAdd(InboundEventsQueueName, "process-message", e, 0)
    /\ UNCHANGED <<webhookVars, convVars, sendVars, helperVars, laterVars>>

\* new Worker("inbound-events", ...): the worker takes a waiting job of the
\* queue it was constructed on, and of no other queue.
InboundWorkerTake(j) ==
    /\ jobs[j].queue = InboundEventsQueueName
    /\ jobs[j].state = "waiting"
    /\ jobs' = [jobs EXCEPT ![j].state = "active"]
    /\ UNCHANGED <<webhookVars, convVars, sendVars, helperVars, laterVars>>

\* Its processor logs the job and returns: the job is completed.
InboundWorkerCompletes(j) ==
    /\ jobs[j].queue = InboundEventsQueueName
    /\ jobs[j].state = "active"
    /\ jobs' = [jobs EXCEPT ![j].state = "completed",
                            ![j].attemptsMade = @ + 1]
    /\ UNCHANGED <<webhookVars, convVars, sendVars, helperVars, laterVars>>

-----------------------------------------------------------------------------
(* Failed sets of the queues *)

\* defaultJobOptions.removeOnFail.count of the three queues
WebhookRemoveOnFailCount == 500
MessageRemoveOnFailCount == 500
SendMessageRemoveOnFailCount == 1000

RemoveOnFailCount(q) ==
    IF q = WebhookQueueName THEN WebhookRemoveOnFailCount
    ELSE IF q = MessageQueueName THEN MessageRemoveOnFailCount
    ELSE SendMessageRemoveOnFailCount

Oldest(failed) == CHOOSE n \in failed : \A m \in failed : n <= m

\* The failed set without its oldest jobs, down to count jobs.
RECURSIVE DropOldest(_, _)
DropOldest(failed, count) ==
    IF Cardinality(failed) <= count THEN failed
    ELSE DropOldest(failed \ {Oldest(failed)}, count)

\* removeOnFail keeping one job fewer than count
KeepLastOneFewer(failed, count) == DropOldest(failed, count - 1)

\* removeOnFail: { count }: of the failed jobs the newest count are kept,
\* the older ones are removed.
KeepLast(failed, count) == DropOldest(failed, count)

\* The terminal branch of JobFails seen from the queue's failed set: a job of
\* queue q has used up its attempts, enters the failed set, and the set is
\* cut down to removeOnFail.count.
MoveToFailed(q) ==
    /\ exhausted[q] < MaxExhausted
    /\ exhausted' = [exhausted EXCEPT ![q] = @ + 1]
    /\ failedSet' = [failedSet EXCEPT
                       ![q] = KeepLast(@ \cup {exhausted[q] + 1}, RemoveOnFailCount(q))]
    /\ UNCHANGED besidesDlq

-----------------------------------------------------------------------------
(* Webhook receiver *)

\* No request has been answered yet.
NoRequest == [ status |-> 0 ]

\* app.get("/webhook"): the verification handshake.
GetWebhook(mode, token, challenge) ==
    /\ LET ok == mode = "subscribe" /\ token = verifyTokenEnv
       IN  getResponse' =
              [ mode |-> mode, token |-> token, challenge |-> challenge,
                status |-> IF ok THEN 200 ELSE 403,
                body |-> IF ok THEN challenge ELSE "Forbidden" ]
    /\ UNCHANGED <<verifyTokenEnv, appSecretEnv, delivered, postResponse, jobs, convVars, sendVars, helperVars, laterVars>>

\* app.post("/webhook"): logs the body and answers 200; the signature header
\* is not read and nothing is pushed to a queue.
PostWebhook(e, sig) ==
    /\ delivered[e] < MaxDeliveries
    /\ delivered' = [delivered EXCEPT ![e] = @ + 1]
    /\ postResponse' =
          [ eventId |-> e, signature |-> sig, delivery |-> delivered[e] + 1,
            status |-> 200 ]
    /\ UNCHANGED <<verifyTokenEnv, appSecretEnv, getResponse, jobs, convVars, sendVars, helperVars, laterVars>>

-----------------------------------------------------------------------------
(* Conversations *)

ConversationIds == {"c1", "c2"}
Callers == {"w1", "w2"}

NoRow == [ exists |-> FALSE, messages |-> <<>>, lastMessageAt |-> 0 ]
NoCall == [ conversationId |-> Undefined,
            message |-> [ messageId |-> 0, timestamp |-> 0 ] ]

Range(seq) == { seq[k] : k \in DOMAIN seq }

\* addMessageToConversation up to its first await: db.conversation.findUnique
\* selects the messages; a missing row throws 'Conversation not found'.
AddMessageFind(w, c, ts) ==
    /\ cpc[w] = "idle"
    /\ Len(callOrder) < MaxMessages
    /\ LET message == [ messageId |-> Len(callOrder) + 1, timestamp |-> ts ]
       IN  /\ callOrder' = Append(callOrder, message)
           /\ carg' = [carg EXCEPT ![w] = [ conversationId |-> c, message |-> message ]]
    /\ IF conversations[c].exists
       THEN /\ csnap' = [csnap EXCEPT ![w] = conversations[c].messages]
            /\ cpc' = [cpc EXCEPT ![w] = "found"]
            /\ cresult' = [cresult EXCEPT ![w] = "pending"]
       ELSE /\ cresult' = [cresult EXCEPT ![w] = "Conversation not found"]
            /\ UNCHANGED <<csnap, cpc>>
    /\ UNCHANGED <<conversations, appended, webhookVars, queueVars, sendVars, helperVars, laterVars>>

\* The rest of addMessageToConversation: messages.push(message) on the list
\* that was read, then db.conversation.update writes that list back.
AddMessageUpdate(w) ==
    /\ cpc[w] = "found"
    /\ LET c == carg[w].conversationId
           m == carg[w].message
       IN  /\ conversations' = [conversations EXCEPT
                                  ![c].messages = Append(csnap[w], m),
                                  ![c].lastMessageAt = m.timestamp]
           /\ appended' = appended \cup {m}
    /\ cpc' = [cpc EXCEPT ![w] = "idle"]
    /\ cresult' = [cresult EXCEPT ![w] = "updated"]
    /\ UNCHANGED <<carg, csnap, callOrder, webhookVars, queueVars, sendVars, helperVars, laterVars>>

-----------------------------------------------------------------------------
(* Outbound sender *)

\* Number.NaN, the result of parseInt on a string that starts with no digit.
NaN == -1

Digits == <<"0", "1", "2", "3", "4", "5", "6", "7", "8", "9">>
IsDigit(ch) == \E d \in DOMAIN Digits : Digits[d] = ch
DigitValue(ch) == (CHOOSE d \in DOMAIN Digits : Digits[d] = ch) - 1

\* parseInt(str): the number written by the leading decimal digits of str
\* (a sequence of characters), NaN when there is none.
RECURSIVE ParseDigits(_, _)
ParseDigits(str, acc) ==
    IF str = <<>> \/ ~IsDigit(Head(str)) THEN acc
    ELSE ParseDigits(Tail(str), 10 * acc + DigitValue(Head(str)))

ParseInt(str) ==
    IF str = <<>> \/ ~IsDigit(Head(str)) THEN NaN ELSE ParseDigits(str, 0)

\* Header values, as sequences of characters; <<>> is an absent header.
NoHeader == <<>>
\* Retry-After is either delay-seconds or an HTTP-date ("Wed, 21 Oct ..."),
\* of which the first characters are kept.
HttpDate == <<"W", "e", "d">>
RetryAfterHeaders == { NoHeader, <<"1">>, <<"3", "0">>, HttpDate }

NoApiError == [ present |-> FALSE, code |-> 0, message |-> "" ]
ApiError(code, message) == [ present |-> TRUE, code |-> code, message |-> message ]

OkResponse ==
    [ kind |-> "ok", status |-> 200, retryAfter |-> NoHeader, apiError |-> NoApiError,
      message |-> "" ]
\* A failure with no response (error.response is undefined): network, timeout.
NetworkFailures ==
    { [ kind |-> "network", status |-> 0, retryAfter |-> NoHeader,
        apiError |-> NoApiError, message |-> m ] : m \in {"", "timeout of 30000ms exceeded"} }
HttpFailure(status, header, apiError) ==
    [ kind |-> "http", status |-> status, retryAfter |-> header, apiError |-> apiError,
      message |-> "Request failed" ]
HttpFailures ==
    { HttpFailure(429, h, NoApiError) : h \in RetryAfterHeaders }
      \cup { HttpFailure(400, NoHeader, ApiError(4, "Application request limit reached")),
             HttpFailure(400, NoHeader, ApiError(100, "Invalid parameter")),
             HttpFailure(500, NoHeader, NoApiError) }
Failures == NetworkFailures \cup HttpFailures
Responses == {OkResponse} \cup Failures

NoError ==
    [ name |-> Undefined, code |-> Undefined, statusCode |-> 0, retryAfter |-> NaN,
      apiError |-> NoApiError, message |-> "" ]

RateLimitError(message, retryAfter) ==
    [ name |-> "RateLimitError", code |-> "RATE_LIMIT_ERROR", statusCode |-> 429,
      retryAfter |-> retryAfter, apiError |-> NoApiError, message |-> message ]

InstagramAPIError(message, apiError) ==
    [ name |-> "InstagramAPIError", code |-> "INSTAGRAM_API_ERROR", statusCode |-> 502,
      retryAfter |-> NaN, apiError |-> apiError, message |-> message ]

\* x || y on strings: y when x is empty (or undefined).
OrElse(x, y) == IF x = "" THEN y ELSE x

\* InstagramAPIClient.handleAPIError: the error thrown for a failed call.
HandleAPIError(error) ==
    IF error.kind = "http"
    THEN IF error.status = 429 \/ (error.apiError.present /\ error.apiError.code = 4)
         THEN LET retryAfter ==
                      ParseInt(IF error.retryAfter = NoHeader
                               THEN <<"6", "0">> ELSE error.retryAfter)
              IN  RateLimitError("Instagram API rate limit exceeded. Retry after "
                                   \o ToString(retryAfter) \o "s", retryAfter)
         ELSE InstagramAPIError(OrElse(error.apiError.message, "Instagram API error"),
                                error.apiError)
    ELSE InstagramAPIError(OrElse(error.message, "Failed to connect to Instagram API"),
                           NoApiError)

\* sendMessage passes 3 and 1000 to retryWithBackoff; these are its defaults too.
SendMaxRetries == 3
SendBaseDelay == 1000

\* baseDelay: number = 1000, the default of retryWithBackoff
DefaultBaseDelay == 1000

\* The loop test written with <= in place of <.
LoopContinuesOffByOne(i, n) == i <= n

\* for (let i = 0; i < maxRetries; i++)
LoopContinues(i, n) == i < n

\* if (i < maxRetries - 1): a failed attempt that is not the last one sleeps
SleepsAfterFailure(i, n) == i < n - 1

\* The delay with the exponent counted from one.
DelayFromTwo(base, i) == base * Pow2(i + 1)

\* const delay = baseDelay * Math.pow(2, i)
Delay(base, i) == base * Pow2(i)

\* The position after the loop's i++: the next iteration, or the throw of
\* lastError after the loop.
AfterIteration(i, err) ==
    IF LoopContinues(i, maxRetries)
    THEN /\ rpc' = "call"
         /\ UNCHANGED outcome
    ELSE /\ rpc' = "thrown"
         /\ outcome' = [ ok |-> FALSE, value |-> 0, error |-> err ]

NoOutcome == [ ok |-> FALSE, value |-> 0, error |-> NoError ]
NoneThrown == [ cause |-> OkResponse, error |-> NoError ]

\* A call of retryWithBackoff(fn, n, d) up to the first loop test.
RetryStart(who, n, d) ==
    /\ rpc \in {"idle", "returned", "thrown"}
    /\ caller' = who
    /\ maxRetries' = n
    /\ baseDelay' = d
    /\ ri' = 0
    /\ lastError' = NoError
    /\ attempts' = <<>>
    /\ waits' = <<>>
    /\ clock' = 0
    /\ rpc' = IF LoopContinues(0, n) THEN "call" ELSE "thrown"
    /\ outcome' = NoOutcome
    /\ thrown' = IF rpc = "thrown" /\ caller = "sendMessage"
                 THEN [ cause |-> attempts[Len(attempts)].response,
                        error |-> outcome.error ]
                 ELSE thrown
    /\ UNCHANGED <<webhookVars, queueVars, convVars, helperVars, laterVars>>

\* InstagramAPIClient.sendMessage: retryWithBackoff(post, 3, 1000).
SendMessage == RetryStart("sendMessage", SendMaxRetries, SendBaseDelay)

\* Any other call of retryWithBackoff.
RetryWithBackoff(n) == RetryStart("retryWithBackoff", n, DefaultBaseDelay)

\* One iteration of the loop: return await fn(), and the catch block when fn
\* rejects.  fn posts to the platform, which answers resp; the message id of
\* an accepted post is the number of the invocation that posted it.  The
\* clock counts the time slept: an invocation fails at the time it starts.
Attempt(resp) ==
    /\ rpc = "call"
    /\ attempts' = Append(attempts, [ start |-> clock, response |-> resp ])
    /\ IF resp.kind = "ok"
       THEN /\ rpc' = "returned"
            /\ outcome' = [ ok |-> TRUE, value |-> Len(attempts) + 1, error |-> NoError ]
            /\ UNCHANGED <<ri, lastError>>
       ELSE /\ lastError' = HandleAPIError(resp)
            /\ IF SleepsAfterFailure(ri, maxRetries)
               THEN /\ rpc' = "sleep"
                    /\ UNCHANGED <<ri, outcome>>
               ELSE /\ ri' = ri + 1
                    /\ AfterIteration(ri + 1, HandleAPIError(resp))
    /\ UNCHANGED <<caller, maxRetries, baseDelay, waits, clock, thrown,
                   webhookVars, queueVars, convVars, helperVars, laterVars>>

\* await sleep(delay), then i++ and the loop test.
Sleep ==
    /\ rpc = "sleep"
    /\ waits' = Append(waits, Delay(baseDelay, ri))
    /\ clock' = clock + Delay(baseDelay, ri)
    /\ ri' = ri + 1
    /\ AfterIteration(ri + 1, lastError)
    /\ UNCHANGED <<caller, maxRetries, baseDelay, lastError, attempts, thrown,
                   webhookVars, queueVars, convVars, helperVars, laterVars>>

\* The messages of the errors a job processor built on these helpers fails
\* with: those handleAPIError throws and the one addMessageToConversation
\* throws.
ErrorMessages ==
    { HandleAPIError(f).message : f \in Failures } \cup { "Conversation not found" }

-----------------------------------------------------------------------------
(* Strings and matchesKeyword *)

\* Strings the helpers compute on are sequences of characters.
Chars == {"A", "a", "("}

StringsUpTo(n) == UNION { [1..k -> Chars] : k \in 0..n }

ExampleMessage ==
    << "I", " ", "l", "o", "v", "e", " ", "y", "o", "u", "r", " ",
       "P", "r", "i", "c", "i", "n", "g", "!" >>
ExampleKeyword == << "p", "r", "i", "c", "i", "n", "g" >>

MessageTexts == StringsUpTo(MaxMessageLen) \cup {ExampleMessage}
Keywords == StringsUpTo(MaxKeywordLen) \cup {ExampleKeyword}

UpperCase == << "A", "B", "C", "D", "E", "F", "G", "H", "I", "J", "K", "L", "M",
                "N", "O", "P", "Q", "R", "S", "T", "U", "V", "W", "X", "Y", "Z" >>
LowerCase == << "a", "b", "c", "d", "e", "f", "g", "h", "i", "j", "k", "l", "m",
                "n", "o", "p", "q", "r", "s", "t", "u", "v", "w", "x", "y", "z" >>

LowerChar(ch) ==
    IF \E k \in DOMAIN UpperCase : UpperCase[k] = ch
    THEN LowerCase[CHOOSE k \in DOMAIN UpperCase : UpperCase[k] = ch]
    ELSE ch

\* String.prototype.toLowerCase
ToLowerCaseIdentity(str) == str
ToLowerCase(str) == [k \in DOMAIN str |-> LowerChar(str[k])]

\* String.prototype.startsWith / endsWith / includes
StartsWith(str, search) ==
    Len(search) <= Len(str) /\ SubSeq(str, 1, Len(search)) = search
EndsWith(str, search) ==
    Len(search) <= Len(str)
      /\ SubSeq(str, Len(str) - Len(search) + 1, Len(str)) = search
Includes(str, search) ==
    \E from \in 1..(Len(str) + 1) :
        StartsWith(SubSeq(str, from, Len(str)), search)

\* new RegExp(pattern, flags) throws a SyntaxError on a pattern it cannot
\* compile.  Of the characters used here "(" is the one with a meaning in a
\* pattern, and no pattern over them closes the group it opens.
ValidRegExp(pattern) == \A k \in DOMAIN pattern : pattern[k] # "("

\* regex.test(message) for a pattern of literal characters: a substring
\* search, folding case under the i flag.
RegExpTest(pattern, ignoreCase, message) ==
    IF ignoreCase
    THEN Includes(ToLowerCase(message), ToLowerCase(pattern))
    ELSE Includes(message, pattern)

MatchTypes == {"contains", "equals", "starts_with", "ends_with", "regex", "fuzzy"}

Returned(value) == [ threw |-> FALSE, value |-> value ]
Threw == [ threw |-> TRUE, value |-> FALSE ]

\* case 'regex' without its try/catch
RegexCaseNoCatch(message, keyword, caseSensitive) ==
    IF ValidRegExp(keyword)
    THEN Returned(RegExpTest(keyword, ~caseSensitive, message))
    ELSE Threw

\* case 'regex': try { new RegExp(keyword, flags).test(message) } catch { false }
RegexCase(message, keyword, caseSensitive) ==
    IF ValidRegExp(keyword)
    THEN Returned(RegExpTest(keyword, ~caseSensitive, message))
    ELSE Returned(FALSE)

\* matchesKeyword(message, keyword, matchType, caseSensitive)
MatchesKeyword(message, keyword, matchType, caseSensitive) ==
    LET msg == IF caseSensitive THEN message ELSE ToLowerCase(message)
        kw == IF caseSensitive THEN keyword ELSE ToLowerCase(keyword)
    IN  CASE matchType = "contains" -> Returned(Includes(msg, kw))
          [] matchType = "equals" -> Returned(msg = kw)
          [] matchType = "starts_with" -> Returned(StartsWith(msg, kw))
          [] matchType = "ends_with" -> Returned(EndsWith(msg, kw))
          [] matchType = "regex" -> RegexCase(message, keyword, caseSensitive)
          [] OTHER -> Returned(FALSE)

\* A call of matchesKeyword with its arguments, before it has returned.
MatchCall(message, keyword, matchType, caseSensitive) ==
    [ message |-> message, keyword |-> keyword, matchType |-> matchType,
      caseSensitive |-> caseSensitive, done |-> FALSE, result |-> Returned(FALSE) ]

NoMatchCall == [ MatchCall(<<>>, <<>>, Undefined, FALSE) EXCEPT !.done = TRUE ]

\* The call of matchesKeyword runs to its return or throw.
CallMatchesKeyword ==
    /\ ~mkCall.done
    /\ mkCall' = [ mkCall EXCEPT
                     !.done = TRUE,
                     !.result = MatchesKeyword(mkCall.message, mkCall.keyword,
                                               mkCall.matchType,
                                               mkCall.caseSensitive) ]
    /\ UNCHANGED <<webhookVars, queueVars, convVars, sendVars, rvCall, vaCall, aiCall, activityLogs, logCall, convRows, upc, uarg, ures, now, upserts, store, redisClock, ticks, cacheWrites, writes, rdCall, ruleRows, fetched, selected, laterVars>>

-----------------------------------------------------------------------------
(* replaceVariables *)

TemplateChars == {"{", "}", "n"}

ExampleTemplate == << "H", "i", " ", "{", "{", "n", "a", "m", "e", "}", "}" >>
TwoPlaceholders == << "{", "{", "n", "}", "}", " ", "{", "{", "n", "n", "}", "}" >>
InheritedTemplate ==
    << "{", "{", "c", "o", "n", "s", "t", "r", "u", "c", "t", "o", "r", "}", "}" >>

Templates ==
    UNION { [1..k -> TemplateChars] : k \in 0..MaxTemplateLen }
      \cup {ExampleTemplate, TwoPlaceholders, InheritedTemplate}

\* variables: Record<string, string>, a function from its own keys to values.
NoVariables == [k \in {} |-> <<>>]
Variables(key, value) == [k \in {key} |-> value]
VariableMaps ==
    { NoVariables,
      Variables(<<"n">>, <<"A">>), Variables(<<"n">>, <<>>),
      Variables(<<"n", "n">>, <<"n">>),
      Variables(<<"n", "a", "m", "e">>, <<"A", "n", "a">>),
      Variables(<<"n", "a", "m", "e">>, <<>>) }

\* \w
WordChar(ch) ==
    \/ \E k \in DOMAIN UpperCase : UpperCase[k] = ch
    \/ \E k \in DOMAIN LowerCase : LowerCase[k] = ch
    \/ ch \in {"0", "1", "2", "3", "4", "5", "6", "7", "8", "9", "_"}

\* The length of the longest run of word characters of str that starts at from.
RECURSIVE WordRun(_, _)
WordRun(str, from) ==
    IF from <= Len(str) /\ WordChar(str[from])
    THEN 1 + WordRun(str, from + 1)
    ELSE 0

\* /\{\{(\w+)\}\}/ matches str at from: the length of the captured key, or 0.
KeyLenAt(str, from) ==
    LET run == WordRun(str, from + 2)
    IN  IF /\ from + 1 <= Len(str)
           /\ str[from] = "{" /\ str[from + 1] = "{"
           /\ run >= 1
           /\ from + 3 + run <= Len(str)
           /\ str[from + 2 + run] = "}" /\ str[from + 3 + run] = "}"
        THEN run
        ELSE 0

\* Property names every object inherits through Object.prototype.
ObjectPrototypeKeys ==
    { << "c", "o", "n", "s", "t", "r", "u", "c", "t", "o", "r" >> }

\* String(variables[key]) for an inherited member: the text of a function.
NativeText == << "f", "u", "n", "c", "t", "i", "o", "n" >>

\* variables[key] || match, converted to the replacement string
Replacement(variables, key, match) ==
    IF key \in DOMAIN variables
    THEN IF variables[key] = <<>> THEN match ELSE variables[key]
    ELSE IF key \in ObjectPrototypeKeys THEN NativeText ELSE match

\* template.replace(/\{\{(\w+)\}\}/g, (match, key) => variables[key] || match),
\* scanning from position from.
RECURSIVE ReplaceFrom(_, _, _)
ReplaceFrom(template, variables, from) ==
    IF from > Len(template) THEN <<>>
    ELSE LET n == KeyLenAt(template, from)
         IN  IF n = 0
             THEN <<template[from]>> \o ReplaceFrom(template, variables, from + 1)
             ELSE Replacement(variables, SubSeq(template, from + 2, from + 1 + n),
                              SubSeq(template, from, from + 3 + n))
                    \o ReplaceFrom(template, variables, from + 4 + n)

ReplaceVariables(template, variables) == ReplaceFrom(template, variables, 1)

\* A call of replaceVariables with its arguments, before it has returned.
ReplaceCall(template, variables) ==
    [ template |-> template, variables |-> variables, done |-> FALSE,
      threw |-> FALSE, result |-> <<>> ]

NoReplaceCall == [ ReplaceCall(<<>>, NoVariables) EXCEPT !.done = TRUE ]

\* The call of replaceVariables runs to its return.
CallReplaceVariables ==
    /\ ~rvCall.done
    /\ rvCall' = [ rvCall EXCEPT
                     !.done = TRUE,
                     !.result = ReplaceVariables(rvCall.template, rvCall.variables) ]
    /\ UNCHANGED <<webhookVars, queueVars, convVars, sendVars, mkCall, vaCall, aiCall, activityLogs, logCall, convRows, upc, uarg, ures, now, upserts, store, redisClock, ticks, cacheWrites, writes, rdCall, ruleRows, fetched, selected, laterVars>>

-----------------------------------------------------------------------------
(* Rule validators *)

TriggerTypes == {"keyword", "first_message", "reaction", "story_reply", "comment"}
ActionTypes == {"ai_reply", "predefined_message", "save_lead", "tag_user", "webhook"}

\* A value handed to a schema is either no object at all or an object, given
\* by those of its fields that some schema requires; a field that is present
\* holds a value valid for the schema that names it.
NotAnObject == [ isObject |-> FALSE, fields |-> {} ]
Object(fields) == [ isObject |-> TRUE, fields |-> fields ]

ConditionFields == {"keyword", "matchType"}
ConfigFields == {"businessContext", "tone", "message", "url", "method"}

ConditionValues == {NotAnObject} \cup { Object(f) : f \in SUBSET ConditionFields }
ConfigValues == {NotAnObject} \cup { Object(f) : f \in SUBSET ConfigFields }

\* z.object({...}): an object with every required field; unknown keys are
\* stripped, not rejected.
ZObject(required, value) == value.isObject /\ required \subseteq value.fields

KeywordConditionSchema(value) == ZObject({"keyword", "matchType"}, value)
AIReplyConfigSchema(value) == ZObject({"businessContext", "tone"}, value)
PredefinedMessageConfigSchema(value) == ZObject({"message"}, value)
WebhookConfigSchema(value) == ZObject({"url", "method"}, value)
SaveLeadConfigSchema(value) == ZObject({}, value)
EmptyObjectSchema(value) == ZObject({}, value)

\* z.any()
ZAny(value) == TRUE

\* AutomationRuleSchema.safeParse(rule).success
AutomationRuleSchema(rule) ==
    /\ rule.nameOk
    /\ rule.triggerType \in TriggerTypes
    /\ (KeywordConditionSchema(rule.conditions) \/ EmptyObjectSchema(rule.conditions))
    /\ rule.actionType \in ActionTypes
    /\ \/ AIReplyConfigSchema(rule.actionConfig)
       \/ PredefinedMessageConfigSchema(rule.actionConfig)
       \/ WebhookConfigSchema(rule.actionConfig)
       \/ SaveLeadConfigSchema(rule.actionConfig)

\* CreateAutomationSchema.safeParse(rule).success
CreateAutomationSchema(rule) ==
    /\ rule.nameOk
    /\ rule.triggerType \in TriggerTypes
    /\ ZAny(rule.conditions)
    /\ rule.actionType \in ActionTypes
    /\ ZAny(rule.actionConfig)

\* validateAutomation(data).success
ValidateAutomation(rule) == CreateAutomationSchema(rule)

Validators == {"AutomationRuleSchema", "validateAutomation"}

RuleInputs ==
    [ nameOk : BOOLEAN,
      triggerType : TriggerTypes \cup {"bogus"},
      conditions : ConditionValues,
      actionType : ActionTypes \cup {"bogus"},
      actionConfig : ConfigValues ]

\* A safeParse of rule by validator, before it has returned.
ValidateCall(validator, rule) ==
    [ validator |-> validator, rule |-> rule, done |-> FALSE, success |-> FALSE ]

NoValidateCall ==
    [ ValidateCall("AutomationRuleSchema",
                   [ nameOk |-> FALSE, triggerType |-> "bogus",
                     conditions |-> NotAnObject, actionType |-> "bogus",
                     actionConfig |-> NotAnObject ])
      EXCEPT !.done = TRUE ]

\* The safeParse returns its result.
CallValidate ==
    /\ ~vaCall.done
    /\ vaCall' = [ vaCall EXCEPT
                     !.done = TRUE,
                     !.success = IF vaCall.validator = "AutomationRuleSchema"
                                 THEN AutomationRuleSchema(vaCall.rule)
                                 ELSE ValidateAutomation(vaCall.rule) ]
    /\ UNCHANGED <<webhookVars, queueVars, convVars, sendVars, mkCall, rvCall, aiCall, activityLogs, logCall, convRows, upc, uarg, ures, now, upserts, store, redisClock, ticks, cacheWrites, writes, rdCall, ruleRows, fetched, selected, laterVars>>

-----------------------------------------------------------------------------
(* AIService: generateResponse and generateQuickReply *)

AIProviders == {"openai", "gemini", "anthropic"}

\* The constructor builds a client for openai and for gemini only.
HasClient(provider) == provider \in {"openai", "gemini"}

\* this.model = model || 'gpt-3.5-turbo' / 'gemini-pro'; the field's
\* initialiser 'gpt-3.5-turbo' stays for any other provider.
ModelOf(provider, model) ==
    IF provider = "openai" THEN OrElse(model, "gpt-3.5-turbo")
    ELSE IF provider = "gemini" THEN OrElse(model, "gemini-pro")
    ELSE "gpt-3.5-turbo"

ModelArgs == {Undefined, "custom-model"}

\* generateResponse itself, or generateQuickReply with one of its scenarios
AIEntries == {"generateResponse", "greeting", "thanks", "goodbye", "help"}

NullContent == "<null>"
NoText == "<no text>"

\* What the provider's API call does: it resolves with a completion whose
\* content is a text or null, or it rejects with an error.
\* Errors: the provider's own, and new Error(`Unsupported AI provider: ...`).
NoAIError == [ message |-> NoText, from |-> NoText ]
ProviderError(message) == [ message |-> message, from |-> "provider" ]
UnsupportedProvider(provider) ==
    [ message |-> "Unsupported AI provider", from |-> provider ]

Completion(content) == [ ok |-> TRUE, content |-> content, error |-> NoAIError ]
Rejection(error) == [ ok |-> FALSE, content |-> NoText, error |-> error ]
NotCalled == [ ok |-> FALSE, content |-> NoText, error |-> NoAIError ]
ProviderOutcomes ==
    { Completion(c) : c \in {"Hello!", "", NullContent} }
      \cup { Rejection(ProviderError(e)) :
               e \in {"429 rate limit", "401 invalid api key", "timeout"} }

AIReturned(message, model) ==
    [ threw |-> FALSE, error |-> NoAIError, message |-> message, model |-> model ]
AIThrew(error) ==
    [ threw |-> TRUE, error |-> error, message |-> NoText, model |-> NoText ]
AIPending ==
    [ threw |-> FALSE, error |-> NoAIError, message |-> NoText, model |-> NoText ]

\* catch (error) that answers with a canned text
CatchWithFallback(error) == AIReturned("Sorry, please try again later.", NoText)

\* catch (error) { logger.error(...); throw error }
Catch(error) == AIThrew(error)

\* generateOpenAIResponse: content || '' ; generateGeminiResponse: text()
MessageOf(provider, content) ==
    IF provider = "openai" /\ content = NullContent THEN "" ELSE content

\* generateQuickReply returns response.message; generateResponse the response
ResultFor(entry, response) ==
    IF entry = "generateResponse" \/ response.threw THEN response
    ELSE AIReturned(response.message, NoText)

\* A call on an AIService constructed with (provider, apiKey, model).
AICall(entry, provider, model) ==
    [ entry |-> entry, provider |-> provider, model |-> ModelOf(provider, model),
      pc |-> "pending", provided |-> NotCalled, result |-> AIPending ]

NoAICall == [ AICall("generateResponse", "openai", Undefined) EXCEPT !.pc = "idle" ]

\* generateResponse up to its await: the provider's client is called, or the
\* provider is unsupported and the error is thrown and rethrown.
GenerateResponse ==
    /\ aiCall.pc = "pending"
    /\ aiCall' =
          IF HasClient(aiCall.provider)
          THEN [ aiCall EXCEPT !.pc = "awaiting" ]
          ELSE [ aiCall EXCEPT
                   !.pc = "done",
                   !.result = ResultFor(aiCall.entry,
                                        Catch(UnsupportedProvider(aiCall.provider))) ]
    /\ UNCHANGED <<webhookVars, queueVars, convVars, sendVars, mkCall, rvCall, vaCall, activityLogs, logCall, convRows, upc, uarg, ures, now, upserts, store, redisClock, ticks, cacheWrites, writes, rdCall, ruleRows, fetched, selected, laterVars>>

\* The provider's call settles and generateResponse returns or rethrows.
ProviderSettles(settled) ==
    /\ aiCall.pc = "awaiting"
    /\ aiCall' =
          [ aiCall EXCEPT
              !.pc = "done",
              !.provided = settled,
              !.result =
                  ResultFor(aiCall.entry,
                            IF settled.ok
                            THEN AIReturned(MessageOf(aiCall.provider, settled.content),
                                            aiCall.model)
                            ELSE Catch(settled.error)) ]
    /\ UNCHANGED <<webhookVars, queueVars, convVars, sendVars, mkCall, rvCall, vaCall, activityLogs, logCall, convRows, upc, uarg, ures, now, upserts, store, redisClock, ticks, cacheWrites, writes, rdCall, ruleRows, fetched, selected, laterVars>>

-----------------------------------------------------------------------------
(* logActivity *)

ProcessingStatuses == {"success", "failed", "pending", "skipped"}

\* The data of an activity: its status and its optional automationId.
ActivityData == [ status : ProcessingStatuses, automationId : {Undefined, "r1"} ]

StorageErrors == {"connection lost", "foreign key constraint failed"}

NoStorageError == "<none>"

\* logActivity(data) before db.activityLog.create has settled.
LogCall(data) ==
    [ data |-> data, pc |-> "creating", storageError |-> NoStorageError,
      rejected |-> FALSE, error |-> NoStorageError ]

NoLogCall ==
    [ LogCall([ status |-> "pending", automationId |-> Undefined ])
      EXCEPT !.pc = "idle" ]

\* A pipeline stage calls logActivity(data).
LogActivity(data) ==
    /\ logCall.pc \in {"idle", "done"}
    /\ Len(activityLogs) < MaxLogs
    /\ logCall' = LogCall(data)
    /\ UNCHANGED <<webhookVars, queueVars, convVars, sendVars, mkCall, rvCall,
                   vaCall, aiCall, activityLogs, convRows, upc, uarg, ures, now, upserts, store, redisClock, ticks, cacheWrites, writes, rdCall, ruleRows, fetched, selected, laterVars>>

\* db.activityLog.create stores the row; the returned promise resolves.
CreateSucceeds ==
    /\ logCall.pc = "creating"
    /\ activityLogs' = Append(activityLogs, logCall.data)
    /\ logCall' = [ logCall EXCEPT !.pc = "done" ]
    /\ UNCHANGED <<webhookVars, queueVars, convVars, sendVars, mkCall, rvCall,
                   vaCall, aiCall, convRows, upc, uarg, ures, now, upserts, store, redisClock, ticks, cacheWrites, writes, rdCall, ruleRows, fetched, selected, laterVars>>

\* db.activityLog.create fails; logActivity returns its promise, which rejects.
CreateFails(error) ==
    /\ logCall.pc = "creating"
    /\ logCall' = [ logCall EXCEPT !.pc = "done", !.storageError = error,
                                    !.rejected = TRUE, !.error = error ]
    /\ UNCHANGED <<webhookVars, queueVars, convVars, sendVars, mkCall, rvCall,
                   vaCall, aiCall, activityLogs, convRows, upc, uarg, ures, now, upserts, store, redisClock, ticks, cacheWrites, writes, rdCall, ruleRows, fetched, selected, laterVars>>

-----------------------------------------------------------------------------
(* getOrCreateConversation *)

Accounts == {"a1", "a2"}
Senders == {"s1", "s2"}
Usernames == {Undefined, "ana"}

NoConversation ==
    [ id |-> 0, igAccountId |-> Undefined, senderId |-> Undefined,
      senderUsername |-> Undefined, messages |-> <<>>,
      firstMessageAt |-> 0, lastMessageAt |-> 0 ]

NoUpsert ==
    [ igAccountId |-> Undefined, senderId |-> Undefined,
      senderUsername |-> Undefined, at |-> 0 ]

\* where: { senderId } alone
WhereSenderOnly(rows, igAccountId, senderId) ==
    { r \in rows : r.senderId = senderId }

\* where: { igAccountId_senderId: { igAccountId, senderId } }
Where(rows, igAccountId, senderId) ==
    { r \in rows : r.igAccountId = igAccountId /\ r.senderId = senderId }

\* create: { igAccountId, senderId, senderUsername, messages: [], ... }
Created(arg) ==
    [ id |-> Cardinality(convRows) + 1, igAccountId |-> arg.igAccountId,
      senderId |-> arg.senderId, senderUsername |-> arg.senderUsername,
      messages |-> <<>>, firstMessageAt |-> arg.at, lastMessageAt |-> arg.at ]

\* An update that also writes the caller's senderUsername.
UpdatedWithUsername(row, arg) ==
    [ row EXCEPT !.lastMessageAt = arg.at, !.senderUsername = arg.senderUsername ]

\* update: { lastMessageAt: new Date() }
Updated(row, arg) == [ row EXCEPT !.lastMessageAt = arg.at ]

\* getOrCreateConversation up to its await: the arguments of the upsert are
\* built, with new Date() read now.
GetOrCreateConversation(w, igAccountId, senderId, senderUsername) ==
    /\ upc[w] \in {"idle", "done"}
    /\ upserts < MaxUpserts
    /\ upserts' = upserts + 1
    /\ upc' = [upc EXCEPT ![w] = "calling"]
    /\ uarg' = [uarg EXCEPT ![w] =
                   [ igAccountId |-> igAccountId, senderId |-> senderId,
                     senderUsername |-> senderUsername, at |-> now ]]
    /\ ures' = [ures EXCEPT ![w] = NoConversation]
    /\ UNCHANGED <<webhookVars, queueVars, convVars, sendVars, mkCall, rvCall,
                   vaCall, aiCall, activityLogs, logCall, convRows, now, store, redisClock, ticks, cacheWrites, writes, rdCall, ruleRows, fetched, selected, laterVars>>

\* The database executes the upsert of caller w as one statement on the
\* unique key (igAccountId, senderId) and the call returns the row.
Upsert(w) ==
    /\ upc[w] = "calling"
    /\ LET found == Where(convRows, uarg[w].igAccountId, uarg[w].senderId)
       IN  IF found = {}
           THEN /\ convRows' = convRows \cup {Created(uarg[w])}
                /\ ures' = [ures EXCEPT ![w] = Created(uarg[w])]
           ELSE LET row == CHOOSE r \in found : TRUE
                IN  /\ convRows' = (convRows \ {row}) \cup {Updated(row, uarg[w])}
                    /\ ures' = [ures EXCEPT ![w] = Updated(row, uarg[w])]
    /\ upc' = [upc EXCEPT ![w] = "done"]
    /\ UNCHANGED <<webhookVars, queueVars, convVars, sendVars, mkCall, rvCall,
                   vaCall, aiCall, activityLogs, logCall, uarg, now, upserts, store, redisClock, ticks, cacheWrites, writes, rdCall, ruleRows, fetched, selected, laterVars>>

\* Time passes.
Tick ==
    /\ now < MaxNow
    /\ now' = now + 1
    /\ UNCHANGED <<webhookVars, queueVars, convVars, sendVars, mkCall, rvCall,
                   vaCall, aiCall, activityLogs, logCall, convRows, upc, uarg, ures, upserts, store, redisClock, ticks, cacheWrites, writes, rdCall, ruleRows, fetched, selected, laterVars>>

NoAdd == [ conversationId |-> 0, message |-> [ messageId |-> 0, timestamp |-> 0 ],
           error |-> "" ]

\* where: { id: conversationId }
WhereId(rows, conversationId) == { r \in rows : r.id = conversationId }

\* messages.push(message), then data: { messages, lastMessageAt: message.timestamp }
WithMessage(row, message) ==
    [ row EXCEPT !.messages = Append(@, message), !.lastMessageAt = message.timestamp ]

\* addMessageToConversation called while no other call of it is running:
\* findUnique, the throw when there is no such row, the push and the update.
\* The message carries the time of the call and a fresh messageId.
AddMessageToConversation(conversationId) ==
    /\ adds < MaxAdds
    /\ adds' = adds + 1
    /\ LET message == [ messageId |-> adds + 1, timestamp |-> now ]
           found == WhereId(convRows, conversationId)
       IN  IF found = {}
           THEN /\ addCall' = [ conversationId |-> conversationId, message |-> message,
                                error |-> "Conversation not found" ]
                /\ UNCHANGED convRows
           ELSE LET conversation == CHOOSE r \in found : TRUE
                IN  /\ convRows' = (convRows \ {conversation})
                                      \cup {WithMessage(conversation, message)}
                    /\ addCall' = [ conversationId |-> conversationId,
                                    message |-> message, error |-> "" ]
    /\ UNCHANGED <<webhookVars, queueVars, convVars, sendVars, mkCall, rvCall,
                   vaCall, aiCall, activityLogs, logCall, upc, uarg, ures, now, upserts,
                   store, redisClock, ticks, cacheWrites, writes, rdCall, ruleRows,
                   fetched, selected, dlqVars, rlVars, usageVars, memVars, sentVars>>

-----------------------------------------------------------------------------
(* Rate limiter on Redis *)

RateLimitUsers == {"u1", "u2"}

\* The limit and windowSeconds that every caller passes.
RateLimit == 2
RateWindowSeconds == 2

\* A key that does not exist, and a key without a time to live.
NoKey == [ value |-> 0, expireAt |-> -1 ]
NoTTL == -1

\* INCR key: the counter is created at 1 when it does not exist; the time to
\* live of an existing key is kept.
RedisIncr(key) == [ key EXCEPT !.value = @ + 1 ]

\* EXPIRE key seconds: no effect on a key that does not exist.
RedisExpire(key, seconds) ==
    IF key.value = 0 THEN key ELSE [ key EXCEPT !.expireAt = rlNow + seconds ]

\* return current <= limit + 1
WithinLimitOffByOne(current, limit) == current <= limit + 1

\* return current <= limit
WithinLimit(current, limit) == current <= limit

NoIncr == [ value |-> 0, epoch |-> 0 ]

\* checkRateLimit up to its second await: const current = await redis.incr(key)
CheckRateLimitIncr(w, userId) ==
    /\ rlpc[w] = "idle"
    /\ rlChecks < MaxChecks
    /\ rlChecks' = rlChecks + 1
    /\ rlKeys' = [rlKeys EXCEPT ![userId] = RedisIncr(@)]
    /\ rlArg' = [rlArg EXCEPT ![w] = userId]
    /\ rlCurrent' = [rlCurrent EXCEPT ![w] =
                        [ value |-> RedisIncr(rlKeys[userId]).value,
                          epoch |-> rlEpoch[userId] ]]
    /\ rlpc' = [rlpc EXCEPT ![w] = "incremented"]
    /\ UNCHANGED <<rlNow, rlEpoch, rlLog, rlCrashes, besidesRl>>

\* The rest of checkRateLimit: if (current === 1) await redis.expire(key,
\* windowSeconds), then return current <= limit.
CheckRateLimitReturn(w) ==
    /\ rlpc[w] = "incremented"
    /\ rlKeys' = IF rlCurrent[w].value = 1
                 THEN [rlKeys EXCEPT ![rlArg[w]] = RedisExpire(@, RateWindowSeconds)]
                 ELSE rlKeys
    /\ rlLog' = rlLog \cup
                   {[ userId |-> rlArg[w], epoch |-> rlCurrent[w].epoch,
                      current |-> rlCurrent[w].value,
                      allowed |-> WithinLimit(rlCurrent[w].value, RateLimit) ]}
    /\ rlpc' = [rlpc EXCEPT ![w] = "idle"]
    /\ UNCHANGED <<rlNow, rlEpoch, rlArg, rlCurrent, rlChecks, rlCrashes, besidesRl>>

\* The process of worker w fails between the two Redis commands of its call.
ProcessFails(w) ==
    /\ rlpc[w] = "incremented"
    /\ rlCrashes < MaxCrashes
    /\ rlCrashes' = rlCrashes + 1
    /\ rlpc' = [rlpc EXCEPT ![w] = "idle"]
    /\ UNCHANGED <<rlKeys, rlNow, rlEpoch, rlArg, rlCurrent, rlLog, rlChecks, besidesRl>>

\* A second passes on the Redis server; the keys whose time to live has run
\* out are deleted.
RateLimitTick ==
    /\ rlNow < MaxRedisTime
    /\ rlNow' = rlNow + 1
    /\ rlKeys' = [u \in RateLimitUsers |->
                    IF rlKeys[u].expireAt # NoTTL /\ rlKeys[u].expireAt <= rlNow + 1
                    THEN NoKey ELSE rlKeys[u]]
    /\ rlEpoch' = [u \in RateLimitUsers |->
                     IF rlKeys'[u] # rlKeys[u] THEN rlEpoch[u] + 1 ELSE rlEpoch[u]]
    /\ UNCHANGED <<rlpc, rlArg, rlCurrent, rlLog, rlChecks, rlCrashes, besidesRl>>

-----------------------------------------------------------------------------
(* Usage limit *)

\* 24 * 60 * 60 * 1000 ms, in hours
UsageWindowHours == 24

\* now.getTime() - resetTime.getTime() > 24 * 60 * 60 * 1000
ResetDue(user, at) == at - user.usageResetAt > UsageWindowHours

\* return user.usageCount < user.usageLimit
BelowLimit(user) == user.usageCount < user.usageLimit

\* checkUsageLimit up to its return, or up to the await of the update that
\* resets the usage: findUnique, new Date(), the test of the 24 hours.  A
\* worker that received true goes on to incrementUsage.
CheckUsageLimit(w) ==
    /\ uspc[w] = "idle"
    /\ usChecks < MaxUsageChecks
    /\ usChecks' = usChecks + 1
    /\ IF ResetDue(usUser, usNow)
       THEN /\ uspc' = [uspc EXCEPT ![w] = "resetting"]
            /\ usResetAt' = [usResetAt EXCEPT ![w] = usNow]
       ELSE /\ uspc' = [uspc EXCEPT ![w] = IF BelowLimit(usUser) THEN "allowed" ELSE "idle"]
            /\ UNCHANGED usResetAt
    /\ UNCHANGED <<usUser, usNow, besidesUsage>>

\* db.user.update({ data: { usageCount: 0, usageResetAt: now } }); return true
ResetUsage(w) ==
    /\ uspc[w] = "resetting"
    /\ usUser' = [usUser EXCEPT !.usageCount = 0, !.usageResetAt = usResetAt[w]]
    /\ uspc' = [uspc EXCEPT ![w] = "allowed"]
    /\ UNCHANGED <<usNow, usResetAt, usChecks, besidesUsage>>

\* incrementUsage, run by a worker whose checkUsageLimit returned true:
\* usageCount: { increment: 1 }, one statement of the database.
IncrementUsage(w) ==
    /\ uspc[w] = "allowed"
    /\ usUser' = [usUser EXCEPT !.usageCount = @ + 1]
    /\ uspc' = [uspc EXCEPT ![w] = "idle"]
    /\ UNCHANGED <<usNow, usResetAt, usChecks, besidesUsage>>

\* Twelve hours pass.
UsageTick ==
    /\ usNow < 12 * MaxUsageHalfDays
    /\ usNow' = usNow + 12
    /\ UNCHANGED <<usUser, uspc, usResetAt, usChecks, besidesUsage>>

-----------------------------------------------------------------------------
(* In-memory rate limiter *)

MemKeys == {"k1", "k2"}

\* rateLimitStore[key] is undefined
NoRecord == [ present |-> FALSE, count |-> 0, resetAt |-> 0 ]
Record(count, resetAt) == [ present |-> TRUE, count |-> count, resetAt |-> resetAt ]

\* if (!record || now > record.resetAt)
StartsWindow(record, at) == ~record.present \/ at > record.resetAt

\* The in-memory checkRateLimit(key, maxRequests, windowMs) at time at: the
\* record it leaves in the store and the object it returns.
MemCheck(record, at, maxReq, windowMs) ==
    IF StartsWindow(record, at)
    THEN [ record |-> Record(1, at + windowMs),
           allowed |-> TRUE, remaining |-> maxReq - 1, resetAt |-> at + windowMs ]
    ELSE IF record.count >= maxReq
    THEN [ record |-> record,
           allowed |-> FALSE, remaining |-> 0, resetAt |-> record.resetAt ]
    ELSE [ record |-> Record(record.count + 1, record.resetAt),
           allowed |-> TRUE, remaining |-> maxReq - (record.count + 1),
           resetAt |-> record.resetAt ]

\* A call of checkRateLimit(key, memMax, memWindow).
CheckRateLimit(key) ==
    /\ Cardinality(memLog) < MaxMemCalls
    /\ LET r == MemCheck(rateLimitStore[key], memNow, memMax, memWindow)
       IN  /\ rateLimitStore' = [rateLimitStore EXCEPT ![key] = r.record]
           /\ memLog' = memLog \cup
                  {[ n |-> Cardinality(memLog) + 1, key |-> key, at |-> memNow,
                     before |-> rateLimitStore[key], after |-> r.record,
                     allowed |-> r.allowed, remaining |-> r.remaining,
                     resetAt |-> r.resetAt ]}
    /\ UNCHANGED <<memNow, memMax, memWindow, besidesMem>>

\* cleanupRateLimits: delete the records with resetAt < now.
CleanupRateLimits ==
    /\ rateLimitStore' = [k \in MemKeys |->
                            IF rateLimitStore[k].present /\ rateLimitStore[k].resetAt < memNow
                            THEN NoRecord ELSE rateLimitStore[k]]
    /\ rateLimitStore' # rateLimitStore
    /\ UNCHANGED <<memNow, memMax, memWindow, memLog, besidesMem>>

\* A millisecond passes.
MemTick ==
    /\ memNow < MaxMemNow
    /\ memNow' = memNow + 1
    /\ UNCHANGED <<rateLimitStore, memMax, memWindow, memLog, besidesMem>>

-----------------------------------------------------------------------------
(* Sentiment analysis *)

PositiveWords ==
    {
      <<"g", "r", "e", "a", "t">>,
      <<"a", "w", "e", "s", "o", "m", "e">>,
      <<"e", "x", "c", "e", "l", "l", "e", "n", "t">>,
      <<"l", "o", "v", "e">>,
      <<"t", "h", "a", "n", "k", "s">>,
      <<"p", "e", "r", "f", "e", "c", "t">>,
      <<"a", "m", "a", "z", "i", "n", "g">>,
      <<"g", "o", "o", "d">>
    }
NegativeWords ==
    {
      <<"b", "a", "d">>,
      <<"t", "e", "r", "r", "i", "b", "l", "e">>,
      <<"a", "w", "f", "u", "l">>,
      <<"h", "a", "t", "e">>,
      <<"w", "o", "r", "s", "t">>,
      <<"p", "o", "o", "r">>,
      <<"d", "i", "s", "a", "p", "p", "o", "i", "n", "t", "e", "d">>,
      <<"a", "n", "g", "r", "y">>
    }

\* Messages: each listed word alone, and some texts with none, several or
\* capital letters.
SentimentMessages ==
    PositiveWords \cup NegativeWords \cup
    {
      <<>>,
      <<"o", "k">>,
      <<"G", "r", "e", "a", "t">>,
      <<"G", "O", "O", "D">>,
      <<"g", "o", "o", "d", "b", "y", "e">>,
      <<"g", "o", "o", "d", " ", "b", "a", "d">>,
      <<"l", "o", "v", "e", " ", "h", "a", "t", "e", " ", "b", "a", "d">>,
      <<"b", "a", "d", " ", "g", "o", "o", "d", " ", "l", "o", "v", "e">>,
      <<"T", "h", "a", "n", "k", "s", "!">>,
      <<"W", "o", "r", "s", "t", ".", " ", "P", "o", "o", "r", ".">>
    }

\* The content of the first choice of a completion.
SentimentContents ==
    {
      <<"p", "o", "s", "i", "t", "i", "v", "e">>,
      <<"n", "e", "g", "a", "t", "i", "v", "e">>,
      <<"n", "e", "u", "t", "r", "a", "l">>,
      <<"P", "o", "s", "i", "t", "i", "v", "e">>,
      <<" ", "n", "e", "g", "a", "t", "i", "v", "e", " ">>,
      <<"p", "o", "s", "i", "t", "i", "v", "e", ".">>,
      <<"m", "i", "x", "e", "d">>,
      <<>>
    }

\* What chat.completions.create does: it resolves with a completion whose
\* first choice has a text or null as content, or with no choice at all, or
\* it rejects.
SentimentOutcomes ==
    { [ kind |-> "content", content |-> c ] : c \in SentimentContents }
      \cup { [ kind |-> k, content |-> <<>> ] : k \in {"null", "no choices", "rejected"} }

WhiteSpace == {" "}

\* String.prototype.trim
RECURSIVE TrimStart(_)
TrimStart(str) ==
    IF str # <<>> /\ Head(str) \in WhiteSpace THEN TrimStart(Tail(str)) ELSE str
RECURSIVE TrimEnd(_)
TrimEnd(str) ==
    IF str # <<>> /\ str[Len(str)] \in WhiteSpace
    THEN TrimEnd(SubSeq(str, 1, Len(str) - 1)) ELSE str
Trim(str) == TrimEnd(TrimStart(str))

Neutral == <<"n", "e", "u", "t", "r", "a", "l">>
Positive == <<"p", "o", "s", "i", "t", "i", "v", "e">>
Negative == <<"n", "e", "g", "a", "t", "i", "v", "e">>

\* words.filter(word => lowerMessage.includes(word)).length
CountIncluded(words, lowerMessage) ==
    Cardinality({ word \in words : Includes(lowerMessage, word) })

\* AIService.simpleSentimentAnalysis
SimpleSentimentAnalysis(message) ==
    LET lowerMessage == ToLowerCase(message)
        positiveCount == CountIncluded(PositiveWords, lowerMessage)
        negativeCount == CountIncluded(NegativeWords, lowerMessage)
    IN  IF positiveCount > negativeCount THEN Positive
        ELSE IF negativeCount > positiveCount THEN Negative
        ELSE Neutral

\* this.provider === 'openai' && this.openai
UsesOpenAI(provider) == provider = "openai" /\ HasClient(provider)

\* content?.toLowerCase().trim(), then sentiment || 'neutral'; the catch
\* block answers 'neutral' for a rejection and for the TypeError of
\* choices[0].message when there is no choice.
SentimentOf(settled) ==
    IF settled.kind = "content"
    THEN LET sentiment == Trim(ToLowerCase(settled.content))
         IN  IF sentiment = <<>> THEN Neutral ELSE sentiment
    ELSE Neutral

SentimentCall(message, provider) ==
    [ message |-> message, provider |-> provider, pc |-> "ready", value |-> <<>> ]
NoSentimentCall == [ message |-> <<>>, provider |-> Undefined, pc |-> "idle", value |-> <<>> ]

\* analyzeSentiment up to its await, or to its return when the provider is
\* not OpenAI.
AnalyzeSentiment ==
    /\ snCall.pc = "ready"
    /\ snCall' = IF UsesOpenAI(snCall.provider)
                 THEN [snCall EXCEPT !.pc = "awaiting"]
                 ELSE [snCall EXCEPT !.pc = "returned",
                                     !.value = SimpleSentimentAnalysis(snCall.message)]
    /\ UNCHANGED besidesSent

\* The completion request settles and analyzeSentiment returns.
SentimentSettles(settled) ==
    /\ snCall.pc = "awaiting"
    /\ snCall' = [snCall EXCEPT !.pc = "returned", !.value = SentimentOf(settled)]
    /\ UNCHANGED besidesSent

-----------------------------------------------------------------------------
(* Rule cache *)

\* redis.setex(key, 300, ...): seconds to live
CacheTTL == 300

\* JavaScript values of a rule's fields: a Date, given by its ISO text, or a
\* string.
DateValue(iso) == [ type |-> "Date", text |-> iso ]
StringValue(text) == [ type |-> "string", text |-> text ]

\* Rules as getActiveAutomations returns them (createdAt a Date) and as a
\* caller may build them from JSON (createdAt a string).
Rule(id, createdAt) == [ id |-> id, createdAt |-> createdAt ]
RuleLists ==
    { <<>>,
      << Rule("r1", DateValue("2026-01-01T00:00:00.000Z")) >>,
      << Rule("r2", StringValue("2026-01-02T00:00:00.000Z")) >>,
      << Rule("r1", DateValue("2026-01-01T00:00:00.000Z")),
         Rule("r2", StringValue("2026-01-02T00:00:00.000Z")) >> }

\* JSON.stringify of a value: a Date is written through toJSON as the JSON
\* string of its ISO text, a string as a JSON string.
JsonString(text) == [ json |-> "string", text |-> text ]
StringifyValue(value) == JsonString(value.text)

\* JSON.stringify(rules): the JSON array of the rules' JSON objects
Stringify(rules) ==
    [k \in DOMAIN rules |->
        [ id |-> rules[k].id, createdAt |-> StringifyValue(rules[k].createdAt) ]]

\* JSON.parse: a JSON string becomes a string
ParseValue(jsonValue) == StringValue(jsonValue.text)
Parse(jsonText) ==
    [k \in DOMAIN jsonText |->
        Rule(jsonText[k].id, ParseValue(jsonText[k].createdAt))]

\* `automations:${igAccountId}`
AutomationsKey(igAccountId) == << "automations", igAccountId >>
RedisKeys == { AutomationsKey(a) : a \in Accounts }

Nil == [ present |-> FALSE, value |-> <<>>, expireAt |-> 0 ]

\* A key lives until its time to live has passed.
ExpiredLate(entry, time) == time > entry.expireAt
Expired(entry, time) == time >= entry.expireAt

\* redis.get(key)
RedisGet(key) ==
    IF store[key].present /\ ~Expired(store[key], redisClock) THEN store[key] ELSE Nil

\* redis.setex(key, seconds, value)
RedisSetex(key, seconds, value) ==
    [store EXCEPT ![key] =
        [ present |-> TRUE, value |-> value, expireAt |-> redisClock + seconds ]]

Null == [ hit |-> FALSE, rules |-> <<>> ]
Hit(rules) == [ hit |-> TRUE, rules |-> rules ]

NoCacheWrite == [ present |-> FALSE, rules |-> <<>>, at |-> 0 ]
NoRead == [ done |-> FALSE, igAccountId |-> Undefined, at |-> 0, writes |-> 0,
            result |-> Null ]

\* cacheAutomationRules(igAccountId, rules)
CacheAutomationRules(igAccountId, rules) ==
    /\ writes < MaxWrites
    /\ writes' = writes + 1
    /\ store' = RedisSetex(AutomationsKey(igAccountId), CacheTTL, Stringify(rules))
    /\ cacheWrites' = [cacheWrites EXCEPT ![igAccountId] =
                          [ present |-> TRUE, rules |-> rules, at |-> redisClock ]]
    /\ UNCHANGED <<webhookVars, queueVars, convVars, sendVars, mkCall, rvCall,
                   vaCall, aiCall, activityLogs, logCall, convRows, upc, uarg,
                   ures, now, upserts, redisClock, ticks, rdCall, ruleRows, fetched, selected, laterVars>>

\* getCachedAutomationRules(igAccountId): cached ? JSON.parse(cached) : null
GetCachedAutomationRules(igAccountId) ==
    /\ LET cached == RedisGet(AutomationsKey(igAccountId))
       IN  rdCall' = [ done |-> TRUE, igAccountId |-> igAccountId,
                       at |-> redisClock, writes |-> writes,
                       result |-> IF cached.present THEN Hit(Parse(cached.value))
                                  ELSE Null ]
    /\ UNCHANGED <<webhookVars, queueVars, convVars, sendVars, mkCall, rvCall,
                   vaCall, aiCall, activityLogs, logCall, convRows, upc, uarg,
                   ures, now, upserts, store, redisClock, ticks, cacheWrites, writes, ruleRows, fetched, selected, laterVars>>

\* The clock advances by one second or by just under the time to live.
Advances == {1, CacheTTL - 1}

RedisTick(seconds) ==
    /\ ticks < MaxTicks
    /\ ticks' = ticks + 1
    /\ redisClock' = redisClock + seconds
    /\ UNCHANGED <<webhookVars, queueVars, convVars, sendVars, mkCall, rvCall,
                   vaCall, aiCall, activityLogs, logCall, convRows, upc, uarg,
                   ures, now, upserts, store, cacheWrites, writes, rdCall, ruleRows, fetched, selected, laterVars>>

-----------------------------------------------------------------------------
(* Automation rules *)

RuleIds == {"r1", "r2"}

\* The rows of two rules of account a1: r1 triggers on the keyword 'price',
\* r2 on a first message.  Rows carry no priority column.
RuleRow(id, isActive) ==
    [ id |-> id, igAccountId |-> "a1", isActive |-> isActive,
      triggerType |-> IF id = "r1" THEN "keyword" ELSE "first_message",
      keyword |-> IF id = "r1" THEN << "p", "r", "i", "c", "e" >> ELSE <<>> ]

RuleTables == { { RuleRow("r1", x), RuleRow("r2", y) } : x, y \in BOOLEAN }

\* The orders in which a query without orderBy may return a set of rows.
Orders(rows) ==
    { order \in [1..Cardinality(rows) -> rows] :
        \A i, k \in 1..Cardinality(rows) : order[i] = order[k] => i = k }

NotFetched == [ igAccountId |-> Undefined, result |-> <<>> ]

\* getActiveAutomations(igAccountId): findMany({ where: { igAccountId,
\* isActive: true } }) with no orderBy
GetActiveAutomations(igAccountId) ==
    /\ \E order \in Orders({ r \in ruleRows : r.igAccountId = igAccountId /\ r.isActive }) :
          fetched' = [ igAccountId |-> igAccountId, result |-> order ]
    /\ UNCHANGED <<webhookVars, queueVars, convVars, sendVars, mkCall, rvCall,
                   vaCall, aiCall, activityLogs, logCall, convRows, upc, uarg,
                   ures, now, upserts, store, redisClock, ticks, cacheWrites,
                   writes, rdCall, ruleRows, selected, laterVars>>

-----------------------------------------------------------------------------
(* Initial states *)

InitWebhook ==
    /\ verifyTokenEnv \in {Undefined, "s3cret"}
    /\ appSecretEnv \in {Undefined, "", "appsecret"}
    /\ delivered = [e \in EventIds |-> 0]
    /\ getResponse = NoRequest
    /\ postResponse = NoRequest

InitQueues == jobs = <<>>

\* Conversation c1 has been created (messages: []); no row has the id c2.
InitConversations ==
    /\ conversations = [c \in ConversationIds |->
                          IF c = "c1" THEN [NoRow EXCEPT !.exists = TRUE] ELSE NoRow]
    /\ cpc = [w \in Callers |-> "idle"]
    /\ carg = [w \in Callers |-> NoCall]
    /\ csnap = [w \in Callers |-> <<>>]
    /\ cresult = [w \in Callers |-> "none"]
    /\ appended = {}
    /\ callOrder = <<>>

InitSend ==
    /\ rpc = "idle"
    /\ caller = Undefined
    /\ maxRetries = 0
    /\ baseDelay = 0
    /\ ri = 0
    /\ lastError = NoError
    /\ attempts = <<>>
    /\ waits = <<>>
    /\ clock = 0
    /\ outcome = NoOutcome
    /\ thrown = NoneThrown

InitMatchIdle == mkCall = NoMatchCall

InitReplaceIdle == rvCall = NoReplaceCall

InitValidateIdle == vaCall = NoValidateCall

InitAIIdle == aiCall = NoAICall

InitLog ==
    /\ activityLogs = <<>>
    /\ logCall = NoLogCall

InitUpsert ==
    /\ convRows = {}
    /\ upc = [w \in Callers |-> "idle"]
    /\ uarg = [w \in Callers |-> NoUpsert]
    /\ ures = [w \in Callers |-> NoConversation]
    /\ now = 0
    /\ upserts = 0

InitCache ==
    /\ store = [k \in RedisKeys |-> Nil]
    /\ redisClock = 0
    /\ ticks = 0
    /\ cacheWrites = [a \in Accounts |-> NoCacheWrite]
    /\ writes = 0
    /\ rdCall = NoRead

InitRulesIdle ==
    /\ ruleRows = { RuleRow("r1", TRUE), RuleRow("r2", TRUE) }
    /\ fetched = NotFetched
    /\ selected = {}

InitDlq ==
    /\ failedSet = [q \in QueueNames |-> {}]
    /\ exhausted = [q \in QueueNames |-> 0]

InitAdd ==
    /\ addCall = NoAdd
    /\ adds = 0

InitRateLimit ==
    /\ rlKeys = [u \in RateLimitUsers |-> NoKey]
    /\ rlNow = 0
    /\ rlEpoch = [u \in RateLimitUsers |-> 0]
    /\ rlpc = [w \in Callers |-> "idle"]
    /\ rlArg = [w \in Callers |-> Undefined]
    /\ rlCurrent = [w \in Callers |-> NoIncr]
    /\ rlLog = {}
    /\ rlChecks = 0
    /\ rlCrashes = 0

InitUsage ==
    /\ usUser = [ usageCount |-> 0, usageLimit |-> UsageLimit, usageResetAt |-> 0 ]
    /\ usNow = 0
    /\ uspc = [w \in Callers |-> "idle"]
    /\ usResetAt = [w \in Callers |-> 0]
    /\ usChecks = 0

InitMemStore ==
    /\ rateLimitStore = [k \in MemKeys |-> NoRecord]
    /\ memNow = 0
    /\ memLog = {}

InitMemIdle ==
    /\ InitMemStore
    /\ memMax = 1
    /\ memWindow = 1

InitSentimentIdle == snCall = NoSentimentCall

InitLater ==
    /\ InitDlq
    /\ InitAdd
    /\ InitRateLimit
    /\ InitUsage
    /\ InitMemIdle
    /\ InitSentimentIdle

InitHelpers ==
    /\ InitMatchIdle
    /\ InitReplaceIdle
    /\ InitValidateIdle
    /\ InitAIIdle
    /\ InitLog
    /\ InitUpsert
    /\ InitCache
    /\ InitRulesIdle
    /\ InitLater

InitServices == InitWebhook /\ InitQueues /\ InitConversations /\ InitSend

Init == InitServices /\ InitHelpers

\* The initial states of a deployment whose .env sets both secrets.
InitConfigured ==
    /\ Init
    /\ verifyTokenEnv = "s3cret"
    /\ appSecretEnv = "appsecret"

-----------------------------------------------------------------------------
(* Specification of the webhook receiver with the webhook-events queue *)

NextWebhook ==
    \/ \E mode \in Modes \cup {Undefined}, token \in Tokens \cup {Undefined},
          challenge \in Challenges :
          GetWebhook(mode, token, challenge)
    \/ \E e \in EventIds, sig \in Signatures : PostWebhook(e, sig)
    \/ \E e \in EventIds : QueueWebhookEvent(e)

SpecWebhook == Init /\ [][NextWebhook]_vars

(* Specification of the three queues and their workers *)

\* The jobs of this specification all carry the same event.
QueuedEvents == {"e1"}

NextQueue ==
    \/ \E e \in QueuedEvents : QueueWebhookEvent(e)
    \/ \E e \in QueuedEvents : QueueMessageProcessing(e)
    \/ \E e \in QueuedEvents : QueueSendMessage(e)
    \/ \E j \in JobIds : WorkerTake(j)
    \/ \E j \in JobIds : JobCompletes(j)
    \/ \E j \in JobIds, err \in ErrorMessages : JobFails(j, err)
    \/ \E j \in JobIds : BackoffElapsed(j)
    \/ ClearAllQueues

SpecQueue == InitConfigured /\ [][NextQueue]_vars

(* Specification of the queue helpers with the worker of this code base,   *)
(* which is running and scheduled fairly                                    *)

NextHandoff ==
    \/ \E e \in EventIds : QueueWebhookEvent(e)
    \/ \E e \in EventIds : QueueMessageProcessing(e)
    \/ \E e \in EventIds : QueueSendMessage(e)
    \/ \E e \in EventIds : AddInboundEvent(e)
    \/ \E j \in JobIds : InboundWorkerTake(j)
    \/ \E j \in JobIds : InboundWorkerCompletes(j)

SpecHandoff ==
    /\ InitConfigured
    /\ [][NextHandoff]_vars
    /\ WF_vars(\E j \in JobIds : InboundWorkerTake(j))
    /\ WF_vars(\E j \in JobIds : InboundWorkerCompletes(j))

(* Specification of matchesKeyword *)

InitMatch ==
    /\ InitServices
    /\ verifyTokenEnv = "s3cret"
    /\ appSecretEnv = "appsecret"
    /\ \E message \in MessageTexts, keyword \in Keywords,
          matchType \in MatchTypes, caseSensitive \in BOOLEAN :
          mkCall = MatchCall(message, keyword, matchType, caseSensitive)
    /\ InitReplaceIdle
    /\ InitValidateIdle
    /\ InitAIIdle
    /\ InitLog
    /\ InitUpsert
    /\ InitCache
    /\ InitRulesIdle
    /\ InitLater

NextMatch == CallMatchesKeyword

SpecMatch == InitMatch /\ [][NextMatch]_vars

(* Specification of replaceVariables *)

InitReplace ==
    /\ InitServices
    /\ verifyTokenEnv = "s3cret"
    /\ appSecretEnv = "appsecret"
    /\ InitMatchIdle
    /\ \E template \in Templates, variables \in VariableMaps :
          rvCall = ReplaceCall(template, variables)
    /\ InitValidateIdle
    /\ InitAIIdle
    /\ InitLog
    /\ InitUpsert
    /\ InitCache
    /\ InitRulesIdle
    /\ InitLater

NextReplace == CallReplaceVariables

SpecReplace == InitReplace /\ [][NextReplace]_vars

(* Specification of the rule validators *)

InitValidate ==
    /\ InitServices
    /\ verifyTokenEnv = "s3cret"
    /\ appSecretEnv = "appsecret"
    /\ InitMatchIdle
    /\ InitReplaceIdle
    /\ \E validator \in Validators, rule \in RuleInputs :
          vaCall = ValidateCall(validator, rule)
    /\ InitAIIdle
    /\ InitLog
    /\ InitUpsert
    /\ InitCache
    /\ InitRulesIdle
    /\ InitLater

NextValidate == CallValidate

SpecValidate == InitValidate /\ [][NextValidate]_vars

(* Specification of the AI service *)

InitAI ==
    /\ InitServices
    /\ verifyTokenEnv = "s3cret"
    /\ appSecretEnv = "appsecret"
    /\ InitMatchIdle
    /\ InitReplaceIdle
    /\ InitValidateIdle
    /\ \E entry \in AIEntries, provider \in AIProviders, model \in ModelArgs :
          aiCall = AICall(entry, provider, model)
    /\ InitLog
    /\ InitUpsert
    /\ InitCache
    /\ InitRulesIdle
    /\ InitLater

NextAI ==
    \/ GenerateResponse
    \/ \E settled \in ProviderOutcomes : ProviderSettles(settled)

SpecAI == InitAI /\ [][NextAI]_vars

(* Specification of the activity log *)

NextLog ==
    \/ \E data \in ActivityData : LogActivity(data)
    \/ CreateSucceeds
    \/ \E error \in StorageErrors : CreateFails(error)

SpecLog == InitConfigured /\ [][NextLog]_vars

(* Specification of getOrCreateConversation called by concurrent workers *)

NextUpsert ==
    \/ \E w \in Callers, a \in Accounts, sd \in Senders, u \in Usernames :
          GetOrCreateConversation(w, a, sd, u)
    \/ \E w \in Callers : Upsert(w)
    \/ Tick

SpecUpsert == InitConfigured /\ [][NextUpsert]_vars

(* Specification of the conversation rows: getOrCreateConversation and
   addMessageToConversation on the same table, one call at a time *)

ConversationRowIds == 1..3

NextConversationRows ==
    \/ \E a \in Accounts, u \in Usernames :
          GetOrCreateConversation("w1", a, "s1", u)
    \/ Upsert("w1")
    \/ Tick
    \/ \E id \in ConversationRowIds : AddMessageToConversation(id)

SpecConversationRows == InitConfigured /\ [][NextConversationRows]_vars

(* Specification of the Redis rate limiter: workers whose processes do not
   fail, and workers whose process may fail in the middle of a call *)

NextRateLimit ==
    \/ \E w \in Callers, u \in RateLimitUsers : CheckRateLimitIncr(w, u)
    \/ \E w \in Callers : CheckRateLimitReturn(w)
    \/ RateLimitTick

SpecRateLimit == InitConfigured /\ [][NextRateLimit]_vars

NextRateLimitFailing ==
    \/ NextRateLimit
    \/ \E w \in Callers : ProcessFails(w)

SpecRateLimitFailing == InitConfigured /\ [][NextRateLimitFailing]_vars

(* Specification of the usage limit: each worker calls incrementUsage only
   after its checkUsageLimit returned true *)

NextUsage ==
    \/ \E w \in Callers : CheckUsageLimit(w)
    \/ \E w \in Callers : ResetUsage(w)
    \/ \E w \in Callers : IncrementUsage(w)
    \/ UsageTick

SpecUsage == InitConfigured /\ [][NextUsage]_vars

(* Specification of the in-memory rate limiter: one process, whose callers
   all pass the same maxRequests >= 0 and windowMs > 0 *)

InitMem ==
    /\ InitServices
    /\ verifyTokenEnv = "s3cret"
    /\ appSecretEnv = "appsecret"
    /\ InitMatchIdle
    /\ InitReplaceIdle
    /\ InitValidateIdle
    /\ InitAIIdle
    /\ InitLog
    /\ InitUpsert
    /\ InitCache
    /\ InitRulesIdle
    /\ InitDlq
    /\ InitAdd
    /\ InitRateLimit
    /\ InitUsage
    /\ InitSentimentIdle
    /\ InitMemStore
    /\ memMax \in 0..MaxRequestsArg
    /\ memWindow \in 1..MaxWindowMs

NextMem ==
    \/ \E k \in MemKeys : CheckRateLimit(k)
    \/ CleanupRateLimits
    \/ MemTick

SpecMem == InitMem /\ [][NextMem]_vars

(* Specification of analyzeSentiment: one call, for each message and
   provider *)

InitSentiment ==
    /\ InitServices
    /\ verifyTokenEnv = "s3cret"
    /\ appSecretEnv = "appsecret"
    /\ InitMatchIdle
    /\ InitReplaceIdle
    /\ InitValidateIdle
    /\ InitAIIdle
    /\ InitLog
    /\ InitUpsert
    /\ InitCache
    /\ InitRulesIdle
    /\ InitDlq
    /\ InitAdd
    /\ InitRateLimit
    /\ InitUsage
    /\ InitMemIdle
    /\ \E message \in SentimentMessages, provider \in AIProviders :
          snCall = SentimentCall(message, provider)

NextSentiment ==
    \/ AnalyzeSentiment
    \/ \E settled \in SentimentOutcomes : SentimentSettles(settled)

SpecSentiment == InitSentiment /\ [][NextSentiment]_vars

(* Specification of the rule cache *)

NextCache ==
    \/ \E a \in Accounts, rules \in RuleLists : CacheAutomationRules(a, rules)
    \/ \E a \in Accounts : GetCachedAutomationRules(a)
    \/ \E seconds \in Advances : RedisTick(seconds)

SpecCache == InitConfigured /\ [][NextCache]_vars

(* Specification of the worker with the automation rules *)

InitRules ==
    /\ InitServices
    /\ verifyTokenEnv = "s3cret"
    /\ appSecretEnv = "appsecret"
    /\ InitMatchIdle
    /\ InitReplaceIdle
    /\ InitValidateIdle
    /\ InitAIIdle
    /\ InitLog
    /\ InitUpsert
    /\ InitCache
    /\ ruleRows \in RuleTables
    /\ fetched = NotFetched
    /\ selected = {}
    /\ InitLater

NextRules ==
    \/ \E e \in EventIds : AddInboundEvent(e)
    \/ \E j \in JobIds : InboundWorkerTake(j)
    \/ \E j \in JobIds : InboundWorkerCompletes(j)
    \/ \E a \in Accounts : GetActiveAutomations(a)

SpecRules == InitRules /\ [][NextRules]_vars

(* Specification of the failed sets: the jobs of one queue fail *)

NextDeadLetter ==
    \E q \in QueueNames :
        /\ \A o \in QueueNames \ {q} : exhausted[o] = 0
        /\ MoveToFailed(q)

SpecDeadLetter == InitConfigured /\ [][NextDeadLetter]_vars

(* Specification of the conversation helpers called by concurrent workers *)

NextConversation ==
    \/ \E w \in Callers, c \in ConversationIds, ts \in 1..MaxTimestamp :
          AddMessageFind(w, c, ts)
    \/ \E w \in Callers : AddMessageUpdate(w)

SpecConversation == InitConfigured /\ [][NextConversation]_vars

(* Specification of the outbound sender *)

NextSend ==
    \/ SendMessage
    \/ \E n \in 0..MaxRetriesArg : RetryWithBackoff(n)
    \/ \E resp \in Responses : Attempt(resp)
    \/ Sleep

SpecSend == InitConfigured /\ [][NextSend]_vars

-----------------------------------------------------------------------------
(* Properties of the webhook receiver *)

JobsOfEvent(e) ==
    { j \in JobIds : jobs[j].queue = WebhookQueueName /\ jobs[j].eventId = e }

\* C1: an event delivered to POST /webhook one or more times has exactly one
\* processing job, however often it was delivered.
IdempotentIntake ==
    \A e \in EventIds : delivered[e] >= 1 => Cardinality(JobsOfEvent(e)) = 1

SecretEmpty == appSecretEnv \in {Undefined, ""}

\* C2: a POST /webhook is answered 200 only when its signature is valid and
\* the app secret is not empty, and is answered 403 otherwise.
SignatureFailsClosed ==
    postResponse.status # 0 =>
        IF postResponse.signature = "valid" /\ ~SecretEmpty
        THEN postResponse.status = 200
        ELSE postResponse.status = 403

\* hub.verify_token matches the configured secret: a secret is configured and
\* the request carries it.
TokenMatches(token) == verifyTokenEnv # Undefined /\ token = verifyTokenEnv

\* C3: GET /webhook answers 200 with hub.challenge iff hub.mode is subscribe
\* and hub.verify_token matches the configured secret, and 403 otherwise.
WebhookVerification ==
    getResponse.status # 0 =>
        IF getResponse.mode = "subscribe" /\ TokenMatches(getResponse.token)
        THEN getResponse.status = 200 /\ getResponse.body = getResponse.challenge
        ELSE getResponse.status = 403

-----------------------------------------------------------------------------
(* Properties of the conversation helpers *)

AllCallsComplete == \A w \in Callers : cpc[w] = "idle"

\* C4: once all addMessageToConversation calls have completed, every message
\* whose call returned is in the stored messages of its conversation.
NoLostUpdate ==
    AllCallsComplete =>
        \A m \in appended :
            \E c \in ConversationIds : m \in Range(conversations[c].messages)

InTimestampOrder(messages) ==
    \A a, b \in DOMAIN messages :
        a < b => messages[a].timestamp <= messages[b].timestamp

\* C5: once all calls have completed, the stored messages of every
\* conversation are in timestamp order, whatever order they were appended in.
ConversationInTimestampOrder ==
    AllCallsComplete =>
        \A c \in ConversationIds : InTimestampOrder(conversations[c].messages)

-----------------------------------------------------------------------------
(* Properties of the outbound sender *)

IsFailure(resp) == resp.kind # "ok"

\* C6: after an attempt of sendMessage that failed with a RateLimitError
\* carrying retryAfter = R seconds, the next attempt starts R seconds or more
\* later.
RateLimitHonored ==
    caller = "sendMessage" =>
        \A k \in 1..(Len(attempts) - 1) :
            LET err == HandleAPIError(attempts[k].response)
            IN  (IsFailure(attempts[k].response) /\ err.name = "RateLimitError"
                   /\ err.retryAfter # NaN)
                   => attempts[k + 1].start >= attempts[k].start + 1000 * err.retryAfter

Failed(k) == IsFailure(attempts[k].response)

\* C7: with maxRetries >= 1, fn is never invoked more than maxRetries times;
\* a call that returns has invoked fn k + 1 times for k < maxRetries failures
\* followed by the one success, whose value it returns; a call that throws
\* has invoked fn exactly maxRetries times, all failed, and throws the error
\* of the last invocation.
BoundedRetries ==
    maxRetries >= 1 =>
        /\ Len(attempts) <= maxRetries
        /\ rpc = "returned" =>
              /\ Len(attempts) >= 1
              /\ \A k \in 1..(Len(attempts) - 1) : Failed(k)
              /\ ~Failed(Len(attempts))
              /\ outcome.ok
              /\ outcome.value = Len(attempts)
        /\ rpc = "thrown" =>
              /\ Len(attempts) = maxRetries
              /\ \A k \in 1..Len(attempts) : Failed(k)
              /\ ~outcome.ok
              /\ outcome.error = HandleAPIError(attempts[maxRetries].response)

\* sendMessage failed twice and succeeded on its third attempt.
FailFailSucceed ==
    /\ caller = "sendMessage"
    /\ rpc = "returned"
    /\ Len(attempts) = 3
    /\ Failed(1) /\ Failed(2)
    /\ outcome.ok /\ outcome.value = 3

\* A permanent rejection by the platform: a 4xx answer that is neither 429
\* nor the Graph rate-limit code.
PermanentRejection(resp) ==
    /\ resp.kind = "http"
    /\ resp.status \in 400..499
    /\ resp.status # 429
    /\ ~(resp.apiError.present /\ resp.apiError.code = 4)

\* C8: sendMessage makes no further attempt after a permanent rejection.
PermanentRejectionNotRetried ==
    caller = "sendMessage" =>
        \A k \in 1..(Len(attempts) - 1) : ~PermanentRejection(attempts[k].response)

NetworkFailure(resp) == resp.kind = "network"

\* C9: the terminal errors of two sendMessage calls, one ended by a permanent
\* rejection with a response and one by a failure with no response, are of
\* different kinds.
TerminalErrorsDistinguished ==
    (caller = "sendMessage" /\ rpc = "thrown" /\ thrown.error.name # Undefined) =>
        LET cause == attempts[Len(attempts)].response
        IN  ((PermanentRejection(cause) /\ NetworkFailure(thrown.cause))
               \/ (NetworkFailure(cause) /\ PermanentRejection(thrown.cause)))
              => /\ outcome.error.name # thrown.error.name
                 \/ outcome.error.code # thrown.error.code

-----------------------------------------------------------------------------
(* Properties of the queues *)

ClaimedCeiling(q) == IF q = SendMessageQueueName THEN 5 ELSE 3

JobWithinCeiling(j) ==
    /\ jobs[j].attemptsMade <= ClaimedCeiling(jobs[j].queue)
    /\ jobs[j].attemptsMade = ClaimedCeiling(jobs[j].queue)
          => jobs[j].state \in {"failed", "completed"}
    /\ jobs[j].state = "failed"
          => /\ jobs[j].attemptsMade = ClaimedCeiling(jobs[j].queue)
             /\ jobs[j].failedReason # ""

FailedStaysFailed ==
    \A j \in JobIds :
        jobs[j].state = "failed" => (j \in DOMAIN jobs' /\ jobs'[j] = jobs[j])

-----------------------------------------------------------------------------
(* Properties of the queue handoff *)

EnqueuedByHelper(j) == j \in JobIds /\ jobs[j].queue \in QueueNames
TakenByWorker(j) ==
    j \in JobIds /\ jobs[j].state \in {"active", "delayed", "completed", "failed"}

\* C11: every job added by queueWebhookEvent, queueMessageProcessing or
\* queueSendMessage is eventually taken by a worker.
QueueHandoff ==
    \A j \in 1..MaxJobs : EnqueuedByHelper(j) ~> TakenByWorker(j)

-----------------------------------------------------------------------------
(* Properties of matchesKeyword *)

\* The comparison form of a string: itself when case matters, else each
\* upper-case letter replaced by its lower-case letter.
Folded(str, caseSensitive) ==
    IF caseSensitive THEN str
    ELSE [k \in DOMAIN str |->
            IF \E u \in DOMAIN UpperCase : UpperCase[u] = str[k]
            THEN LowerCase[CHOOSE u \in DOMAIN UpperCase : UpperCase[u] = str[k]]
            ELSE str[k]]

\* sub occurs in str at offset off
OccursAt(sub, str, off) ==
    /\ off + Len(sub) <= Len(str)
    /\ \A k \in 1..Len(sub) : str[off + k] = sub[k]

ExpectedMatch(m, kw, matchType) ==
    CASE matchType = "contains" -> \E off \in 0..Len(m) : OccursAt(kw, m, off)
      [] matchType = "equals" -> Len(m) = Len(kw) /\ OccursAt(kw, m, 0)
      [] matchType = "starts_with" -> OccursAt(kw, m, 0)
      [] matchType = "ends_with" ->
            Len(kw) <= Len(m) /\ OccursAt(kw, m, Len(m) - Len(kw))

\* C13: for contains, equals, starts_with and ends_with, matchesKeyword
\* returns the substring, equality, prefix or suffix test of the keyword on
\* the message, both lower-cased unless caseSensitive; the example message
\* contains the example keyword case-insensitively and not case-sensitively.
KeywordMatching ==
    mkCall.done =>
    /\ mkCall.matchType \in {"contains", "equals", "starts_with", "ends_with"} =>
          /\ ~mkCall.result.threw
          /\ mkCall.result.value =
                ExpectedMatch(Folded(mkCall.message, mkCall.caseSensitive),
                              Folded(mkCall.keyword, mkCall.caseSensitive),
                              mkCall.matchType)
    /\ (mkCall.message = ExampleMessage /\ mkCall.keyword = ExampleKeyword
          /\ mkCall.matchType = "contains")
          => mkCall.result.value = ~mkCall.caseSensitive

\* matchesKeyword('I love your Pricing!', 'pricing', 'contains', false) = true
ExampleMatched ==
    /\ mkCall.done
    /\ mkCall.message = ExampleMessage
    /\ mkCall.keyword = ExampleKeyword
    /\ mkCall.matchType = "contains"
    /\ ~mkCall.caseSensitive
    /\ mkCall.result = Returned(TRUE)

\* C14: with matchType regex or an unknown matchType, matchesKeyword returns
\* a boolean without throwing, and false for a pattern that does not compile
\* and for an unknown matchType.
RegexNeverThrows ==
    (mkCall.done /\ mkCall.matchType \in {"regex", "fuzzy"}) =>
        /\ ~mkCall.result.threw
        /\ mkCall.result.value \in BOOLEAN
        /\ (mkCall.matchType = "fuzzy" \/ ~ValidRegExp(mkCall.keyword))
              => mkCall.result.value = FALSE

\* matchesKeyword was called with a regex pattern that does not compile.
InvalidRegexTried ==
    /\ mkCall.done
    /\ mkCall.matchType = "regex"
    /\ ~ValidRegExp(mkCall.keyword)
    /\ mkCall.result = Returned(FALSE)

-----------------------------------------------------------------------------
(* Properties of replaceVariables *)

\* key is a placeholder name: one or more word characters.
IsName(key) == Len(key) >= 1 /\ \A k \in DOMAIN key : WordChar(key[k])

Placeholder(key) == << "{", "{" >> \o key \o << "}", "}" >>

\* The names of the placeholders that start at offset off of text.
NamesAt(text, off) ==
    { key \in { SubSeq(text, off + 3, off + 2 + n) :
                  n \in 1..(Len(text) - off - 4) } :
        /\ IsName(key)
        /\ SubSeq(text, off + 1, off + Len(key) + 4) = Placeholder(key) }

\* The rendering the claim describes: each placeholder whose name is a key
\* of variables becomes variables[name], everything else stays.
RECURSIVE Rendered(_, _, _)
Rendered(text, variables, off) ==
    IF off >= Len(text) THEN <<>>
    ELSE IF NamesAt(text, off) = {}
         THEN <<text[off + 1]>> \o Rendered(text, variables, off + 1)
         ELSE LET key == CHOOSE k \in NamesAt(text, off) : TRUE
              IN  (IF key \in DOMAIN variables THEN variables[key]
                   ELSE Placeholder(key))
                    \o Rendered(text, variables, off + Len(key) + 4)

\* C15: replaceVariables replaces each {{k}} whose name k is a key of
\* variables by variables[k], leaves every other placeholder and all other
\* text verbatim, and never fails.
TemplateRendering ==
    rvCall.done =>
        /\ ~rvCall.threw
        /\ rvCall.result = Rendered(rvCall.template, rvCall.variables, 0)

-----------------------------------------------------------------------------
(* Properties of the rule validators *)

\* conditions validate against the schema its triggerType selects.
ConditionsFitTrigger(rule) ==
    IF rule.triggerType = "keyword"
    THEN KeywordConditionSchema(rule.conditions)
    ELSE EmptyObjectSchema(rule.conditions)

\* actionConfig validates against the schema its actionType selects; the
\* source has no config schema for tag_user.
ConfigFitsAction(rule) ==
    CASE rule.actionType = "ai_reply" -> AIReplyConfigSchema(rule.actionConfig)
      [] rule.actionType = "predefined_message" ->
            PredefinedMessageConfigSchema(rule.actionConfig)
      [] rule.actionType = "webhook" -> WebhookConfigSchema(rule.actionConfig)
      [] rule.actionType = "save_lead" -> SaveLeadConfigSchema(rule.actionConfig)
      [] OTHER -> TRUE

\* C16: every rule accepted by AutomationRuleSchema or validateAutomation has
\* conditions valid for the schema of its triggerType and an actionConfig
\* valid for the schema of its actionType.
DiscriminatedUnion ==
    (vaCall.done /\ vaCall.success) =>
        /\ ConditionsFitTrigger(vaCall.rule)
        /\ ConfigFitsAction(vaCall.rule)

-----------------------------------------------------------------------------
(* Properties of the AI service *)

\* The error the finished call must fail with, if any: the provider's own
\* error, or the unsupported-provider error when there is no client.
FailureOf(call) ==
    IF ~HasClient(call.provider) THEN UnsupportedProvider(call.provider)
    ELSE call.provided.error

CallFailed(call) == ~HasClient(call.provider) \/ ~call.provided.ok

\* C17: whenever the provider call fails or the provider has no client,
\* generateResponse and generateQuickReply fail with that error and return
\* no reply text.
NoSilentFallback ==
    (aiCall.pc = "done" /\ CallFailed(aiCall)) =>
        /\ aiCall.result.threw
        /\ aiCall.result.error = FailureOf(aiCall)
        /\ aiCall.result.message = NoText

\* generateQuickReply failed with the provider's rate-limit error.
QuickReplyProviderFailed ==
    /\ aiCall.pc = "done"
    /\ aiCall.entry = "greeting"
    /\ aiCall.provided = Rejection(ProviderError("429 rate limit"))
    /\ aiCall.result = AIThrew(ProviderError("429 rate limit"))

-----------------------------------------------------------------------------
(* Properties of the activity log *)

\* C18: a failure of the activity-log write is not propagated to the caller
\* of logActivity.
LoggingNeverPropagates ==
    (logCall.pc = "done" /\ logCall.storageError # NoStorageError)
        => ~logCall.rejected

-----------------------------------------------------------------------------
(* Properties of getOrCreateConversation *)

SamePair(x, y) == x.igAccountId = y.igAccountId /\ x.senderId = y.senderId

-----------------------------------------------------------------------------
(* Properties of the rule cache *)

\* The last read, with no write to the cache since it returned.
ReadIsCurrent == rdCall.done /\ rdCall.writes = writes

\* The account read has rules written less than 300 seconds before the read.
Fresh ==
    /\ cacheWrites[rdCall.igAccountId].present
    /\ rdCall.at - cacheWrites[rdCall.igAccountId].at < 300

\* C20 as claimed: a read returns exactly the rules last written for its
\* account until 300 seconds have passed since the write, and null
\* afterwards or when nothing was written for the account.
RuleCacheReadThrough ==
    ReadIsCurrent =>
        rdCall.result = IF Fresh THEN Hit(cacheWrites[rdCall.igAccountId].rules)
                        ELSE Null

\* The rule with every Date field replaced by the string of its ISO text.
WithDatesAsStrings(rule) ==
    [ rule EXCEPT !.createdAt = [ type |-> "string", text |-> rule.createdAt.text ] ]

\* C20 as amended: a fresh read returns the rules last written for its
\* account with each Date replaced by its ISO string, in their order; any
\* other read returns null; a read leaves the cache as it was.
RuleCacheReadThroughJSON ==
    /\ ReadIsCurrent =>
          IF Fresh
          THEN LET written == cacheWrites[rdCall.igAccountId].rules
               IN  /\ rdCall.result.hit
                   /\ Len(rdCall.result.rules) = Len(written)
                   /\ \A k \in DOMAIN written :
                         rdCall.result.rules[k] = WithDatesAsStrings(written[k])
          ELSE rdCall.result = Null
    /\ \A a \in Accounts :
          store[AutomationsKey(a)].present <=> cacheWrites[a].present
    /\ \A a \in Accounts : cacheWrites[a].present =>
          /\ store[AutomationsKey(a)].expireAt = cacheWrites[a].at + 300
          /\ Len(store[AutomationsKey(a)].value) = Len(cacheWrites[a].rules)

\* Rules written at second 0 were read at second 299 and came back with the
\* Date as a string, while the other account had rules of its own.
HitJustBeforeExpiry ==
    /\ ReadIsCurrent
    /\ cacheWrites[rdCall.igAccountId].at = 0
    /\ rdCall.at = 299
    /\ rdCall.result.hit
    /\ Len(rdCall.result.rules) = 1
    /\ cacheWrites[rdCall.igAccountId].rules[1].createdAt.type = "Date"
    /\ rdCall.result.rules[1].createdAt.type = "string"

-----------------------------------------------------------------------------
(* Properties of rule selection *)

\* The inbound messages: e1 is a first message containing 'price', e2 a
\* later message without it, both to account a1.
MessageOfEvent(e) ==
    [ igAccountId |-> "a1",
      text |-> IF e = "e1" THEN << "p", "r", "i", "c", "e", "?" >>
               ELSE << "h", "i" >>,
      isFirst |-> e = "e1" ]

\* R1 has priority 1 and R2 priority 2.
PriorityOf(id) == IF id = "r1" THEN 1 ELSE 2

TriggerSatisfied(rule, message) ==
    IF rule.triggerType = "keyword"
    THEN MatchesKeyword(message.text, rule.keyword, "contains", FALSE).value
    ELSE message.isFirst

\* The ids of the rules that must be selected for message: of the active
\* rules of its account whose trigger is satisfied, the one of least priority
\* number.
FirstMatch(message) ==
    LET matching == { r \in ruleRows :
                        /\ r.igAccountId = message.igAccountId
                        /\ r.isActive
                        /\ TriggerSatisfied(r, message) }
    IN  { r.id : r \in { m \in matching :
                           \A o \in matching : PriorityOf(m.id) <= PriorityOf(o.id) } }

SelectedFor(j) == { pair[2] : pair \in { p \in selected : p[1] = j } }

\* C12: active rules are evaluated in ascending priority and the first rule
\* whose trigger is satisfied is the only one selected; a first message
\* containing 'price' selects R1 only.
RulePriority ==
    \A j \in JobIds :
        (jobs[j].queue = InboundEventsQueueName /\ jobs[j].state = "completed")
            => SelectedFor(j) = FirstMatch(MessageOfEvent(jobs[j].eventId))

-----------------------------------------------------------------------------
(* Properties of the failed sets *)

ClaimedKept(q) == IF q = SendMessageQueueName THEN 1000 ELSE 500

-----------------------------------------------------------------------------
(* Properties of the backoff schedule *)

\* C22: the wait between failed attempt i and attempt i+1 of retryWithBackoff
\* is exactly baseDelay * 2^(i-1), so 1000 ms then 2000 ms for sendMessage;
\* each wait doubles the one before it, attempt i+1 starts exactly that long
\* after attempt i failed, and no wait follows the final failed attempt.
BackoffSchedule ==
    /\ \A i \in 1..Len(waits) : waits[i] = baseDelay * 2^(i - 1)
    /\ \A i \in 2..Len(waits) : waits[i] = 2 * waits[i - 1]
    /\ \A i \in 1..Len(waits) :
          i < Len(attempts) => attempts[i + 1].start - attempts[i].start = waits[i]
    /\ Len(waits) <= Len(attempts)
    /\ (rpc \in {"returned", "thrown"} /\ Len(attempts) > 0)
          => Len(waits) = Len(attempts) - 1
    /\ (caller = "sendMessage" /\ Len(waits) >= 1) => waits[1] = 1000
    /\ (caller = "sendMessage" /\ Len(waits) >= 2) => waits[2] = 2000
    /\ caller = "sendMessage" => Len(waits) <= 2

SendExhaustedAfterTwoWaits ==
    /\ caller = "sendMessage"
    /\ rpc = "thrown"
    /\ Len(attempts) = 3
    /\ waits = <<1000, 2000>>

-----------------------------------------------------------------------------
(* Properties of the error conversion *)

ClaimedRateLimited(r) ==
    /\ r.kind = "http"
    /\ r.status = 429 \/ (r.apiError.present /\ r.apiError.code = 4)

AllDigits(h) == \A i \in 1..Len(h) : h[i] \in {"0", "1", "2", "3", "4", "5", "6", "7", "8", "9"}

RECURSIVE SecondsWritten(_)
SecondsWritten(h) ==
    IF h = <<>> THEN 0
    ELSE 10 * SecondsWritten(SubSeq(h, 1, Len(h) - 1))
           + (CHOOSE d \in 0..9 : ToString(d) = h[Len(h)])

LastResponse == attempts[Len(attempts)].response

\* C23: handleAPIError never returns normally: a failed call never resolves.
\* A response with status 429 or Graph error code 4 becomes a RateLimitError
\* whose retryAfter is the seconds of the Retry-After header, or 60 when the
\* header is absent; every other failure, one without a response included,
\* becomes an InstagramAPIError.
ErrorConversion ==
    (Len(attempts) > 0 /\ LastResponse.kind # "ok") =>
        /\ rpc # "returned"
        /\ IF ClaimedRateLimited(LastResponse)
           THEN /\ lastError.name = "RateLimitError"
                /\ lastError.retryAfter >= 0
                /\ LastResponse.retryAfter = NoHeader => lastError.retryAfter = 60
                /\ (LastResponse.retryAfter # NoHeader /\ AllDigits(LastResponse.retryAfter))
                      => lastError.retryAfter = SecondsWritten(LastResponse.retryAfter)
           ELSE lastError.name = "InstagramAPIError"

-----------------------------------------------------------------------------
(* Properties of the conversation rows *)

RowOf(rows, id) == CHOOSE r \in rows : r.id = id
Exists(rows, id) == \E r \in rows : r.id = id

\* old is a strict prefix of new
StrictPrefix(old, new) ==
    /\ Len(old) < Len(new)
    /\ \A i \in 1..Len(old) : new[i] = old[i]

\* The upsert of caller w completes in this step.
Completes(w) == upc[w] = "calling" /\ upc'[w] = "done"

\* C24: getOrCreateConversation on an existing conversation changes only its
\* lastMessageAt (messages, firstMessageAt and senderUsername stay, and so
\* does every other row); a sequential addMessageToConversation leaves the
\* previous messages a strict prefix of the new list and touches no other
\* row; on an id that does not exist it fails with 'Conversation not found'
\* and changes nothing.
ConversationFrame ==
    [][ /\ \A w \in Callers :
             (Completes(w) /\ Exists(convRows, ures'[w].id)) =>
                 LET old == RowOf(convRows, ures'[w].id)
                     new == RowOf(convRows', ures'[w].id)
                 IN  /\ new.messages = old.messages
                     /\ new.firstMessageAt = old.firstMessageAt
                     /\ new.senderUsername = old.senderUsername
                     /\ new.igAccountId = old.igAccountId
                     /\ new.senderId = old.senderId
                     /\ new.lastMessageAt = uarg[w].at
                     /\ convRows' \ {new} = convRows \ {old}
        /\ adds' # adds =>
             IF Exists(convRows, addCall'.conversationId)
             THEN LET old == RowOf(convRows, addCall'.conversationId)
                      new == RowOf(convRows', addCall'.conversationId)
                  IN  /\ addCall'.error = ""
                      /\ StrictPrefix(old.messages, new.messages)
                      /\ new.messages[Len(new.messages)] = addCall'.message
                      /\ Len(new.messages) = Len(old.messages) + 1
                      /\ convRows' \ {new} = convRows \ {old}
             ELSE /\ addCall'.error = "Conversation not found"
                  /\ convRows' = convRows
      ]_vars

\* A getOrCreateConversation call returned an existing conversation that holds
\* a message, under another username than the one it passed, and an
\* addMessageToConversation call has failed on a missing id.
ExistingConversationTouched ==
    /\ \E w \in Callers :
          /\ upc[w] = "done"
          /\ Len(ures[w].messages) >= 1
          /\ uarg[w].senderUsername # ures[w].senderUsername
    /\ addCall.error = "Conversation not found"

-----------------------------------------------------------------------------
(* Properties of the Redis rate limiter *)

\* The calls for user u, made during life e of its counter, that returned true.
AllowedIn(u, e) == { c \in rlLog : c.userId = u /\ c.epoch = e /\ c.allowed }

\* C25: of the concurrent checkRateLimit(userId, limit, window) calls made for
\* one user within one window (one life of its counter), at most limit
\* return true.
AtMostLimitPerWindow ==
    \A u \in RateLimitUsers : \A e \in 0..MaxRedisTime :
        Cardinality(AllowedIn(u, e)) <= RateLimit

\* Calls for one user have all returned within one window: as many as the
\* limit were allowed and one was refused.
OverlappingCallsLimited ==
    \E u \in RateLimitUsers :
        /\ Cardinality(AllowedIn(u, 0)) = RateLimit
        /\ \E c \in rlLog : c.userId = u /\ c.epoch = 0 /\ ~c.allowed
        /\ \E c, d \in rlLog : c.userId = u /\ d.userId = u /\ c.current = d.current + 1

\* C26: every existing ratelimit:<userId> counter carries an expiry, also
\* after a process failure between the two Redis commands of checkRateLimit.
\* A counter whose first call is still running, about to set the expiry, is
\* not counted against the claim.
LockoutTemporary ==
    \A u \in RateLimitUsers :
        (rlKeys[u].value > 0 /\ rlKeys[u].expireAt = NoTTL) =>
            \E w \in Callers :
                rlpc[w] = "incremented" /\ rlArg[w] = u /\ rlCurrent[w].value = 1

-----------------------------------------------------------------------------
(* Properties of the usage limit *)

\* C27: when every incrementUsage is executed only after a checkUsageLimit
\* of the same user returned true, usageCount never exceeds usageLimit, under
\* any interleaving of the workers.
UsageWithinLimit == usUser.usageCount <= usUser.usageLimit

-----------------------------------------------------------------------------
(* Properties of the in-memory rate limiter *)

\* The calls for key k that were allowed in the window that ends at r.
AllowedInWindow(k, r) == { c \in memLog : c.key = k /\ c.resetAt = r /\ c.allowed }

\* C28: for every key, with maxRequests >= 0, windowMs > 0 and a clock that
\* does not go back: the calls of one window that return allowed = true are at
\* most maxRequests, remaining is never negative, and a call made after
\* resetAt starts a fresh window with count 1.
WindowedLimit ==
    /\ \A c \in memLog : Cardinality(AllowedInWindow(c.key, c.resetAt)) <= memMax
    /\ \A c \in memLog : c.remaining >= 0
    /\ \A c \in memLog :
          (c.before.present /\ c.at > c.before.resetAt) =>
              /\ c.after.count = 1
              /\ c.after.resetAt = c.at + memWindow
              /\ c.resetAt = c.at + memWindow

-----------------------------------------------------------------------------
(* Properties of retryWithBackoff with no retries *)

\* The errors that the invocations of fn made so far have thrown.
ThrownByFn ==
    { HandleAPIError(attempts[k].response) :
        k \in { a \in 1..Len(attempts) : attempts[a].response.kind # "ok" } }

\* C29: for every maxRetries >= 0 (0 is a retryAttempts that
\* WebhookConfigSchema accepts), a finished call of retryWithBackoff has
\* invoked fn at least once, and when it rejects it rejects with an error that
\* fn threw, never with undefined.
AttemptedAtLeastOnce ==
    rpc \in {"returned", "thrown"} =>
        /\ Len(attempts) >= 1
        /\ rpc = "thrown" =>
              /\ outcome.error.name # Undefined
              /\ outcome.error \in ThrownByFn

-----------------------------------------------------------------------------
(* Properties of the sentiment analysis *)

Sentiments ==
    { <<"p", "o", "s", "i", "t", "i", "v", "e">>,
      <<"n", "e", "u", "t", "r", "a", "l">>,
      <<"n", "e", "g", "a", "t", "i", "v", "e">> }

\* How many of the words occur in the message, letter case aside.
Hits(words, message) ==
    Cardinality({ w \in words :
        \E from \in 1..Len(message) :
            /\ from + Len(w) - 1 <= Len(message)
            /\ \A i \in 1..Len(w) : LowerChar(message[from + i - 1]) = w[i] })

\* C30: analyzeSentiment is total and closed: for every message and every
\* outcome of the provider it returns one of 'positive', 'neutral' and
\* 'negative' (it never throws), and without an OpenAI client it returns the
\* result of the keyword count.
SentimentClosed ==
    snCall.pc = "returned" =>
        /\ snCall.value \in Sentiments
        /\ snCall.provider # "openai" =>
              snCall.value =
                  IF Hits(PositiveWords, snCall.message) > Hits(NegativeWords, snCall.message)
                  THEN <<"p", "o", "s", "i", "t", "i", "v", "e">>
                  ELSE IF Hits(NegativeWords, snCall.message) > Hits(PositiveWords, snCall.message)
                  THEN <<"n", "e", "g", "a", "t", "i", "v", "e">>
                  ELSE <<"n", "e", "u", "t", "r", "a", "l">>

====
